---- MODULE Spec2Model ----
(***************************************************************************)
(* Model of the global-localization pose sampler of als_ros2               *)
(* (include/als_ros2/Pose.h: classes Pose, Keypoint, SDFOrientationFeature *)
(* and GLPoseSampler with its map / odometry / scan callbacks).            *)
(*                                                                         *)
(* The callbacks mapCB, odomCB and scanCB and the functions buildLocalMap, *)
(* findCorrespondingFeatures, computeMatchingRate and generatePoses are    *)
(* modelled from the implementation kept in lines 756-1115 of Pose.h; the  *)
(* callbacks of lines 737-752 only log the frame id of the message.        *)
(*                                                                         *)
(* Units.  Lengths are integer multiples of 0.5 m, so the default          *)
(* key_scan_interval_dist of 0.5 m is 1.  Angles are integer multiples of  *)
(* 5 degrees, so M_PI is 36 and the default key_scan_interval_yaw of       *)
(* 5 degrees is 1.  Average SDF values are integer multiples of 1.0 m, so  *)
(* the default average_sdf_delta_th of 1.0 is 1.  The sections on          *)
(* detectKeypoints, calculateFeatures and generatePoses state their own    *)
(* units.                                                                  *)
(*                                                                         *)
(* Specifications: Spec (the callbacks of lines 756-1115), SpecMatch,      *)
(* SpecDetect, SpecFeatures, SpecDescriptor, SpecPoses and SpecLocalMap    *)
(* (one function each, called on inputs drawn in the initial state),       *)
(* SpecLive (the constructor's transform lookup, the watchdog and the      *)
(* callbacks of lines 737-752), SpecObjects (a Pose and a Particle under   *)
(* any sequence of their operations) and SpecHistogram (class Histogram).  *)
(***************************************************************************)
EXTENDS Integers, Sequences, FiniteSets

VARIABLES
    keyScansNum_,             \* parameter key_scans_num (N)
    gotMap_, gotOdom_,        \* flags set by mapCB / odomCB
    mapOrigin_,               \* Pose: origin of the global map
    mapData_,                 \* identity of the stored global grid (size, resolution, cells)
    sdfKeypoints_,            \* global keypoints (index 0 first)
    sdfOrientationFeatures_,  \* global features, aligned with sdfKeypoints_
    odomPose_,                \* latest odometry pose
    keyScans_, keyPoses_,     \* the keyframe window, front = index 1 of the sequence
    isFirst, prevOdomPose,    \* function-local statics of scanCB
    clock,                    \* stamp the next scan message will carry
    event,                    \* the callback that ran last and its message
    ran,                      \* pipeline steps the last callback executed, in order
    localSDFKeypoints,        \* arguments of findCorrespondingFeatures
    localFeatures,
    correspondingIndices,     \* its result
    pc,                       \* position of the harness that calls a function
    input, output,            \* arguments and result of the function a harness calls
    ctorPc,                   \* position of the constructor, lines 667-717
    lookup,                   \* state of the waitForTransform request
    transform_ready_,         \* flag the lookup callback sets, line 678
    tfBaseLink2Laser,         \* transform the lookup callback stores, line 677
    baseLink2Laser_,          \* sensor offset the constructor derives, lines 714-716
    delivered,                \* messages handed to the callbacks of lines 737-752
    shutdownRequested         \* rclcpp::shutdown() has been called

nodeVars == <<keyScansNum_, gotMap_, gotOdom_, mapOrigin_, mapData_, odomPose_,
              keyScans_, keyPoses_, isFirst, prevOdomPose, clock, event, ran>>
globalVars == <<sdfKeypoints_, sdfOrientationFeatures_>>
matchVars == <<localSDFKeypoints, localFeatures, correspondingIndices, pc>>
callVars == <<input, output>>
liveVars == <<ctorPc, lookup, transform_ready_, tfBaseLink2Laser, baseLink2Laser_,
              delivered, shutdownRequested>>
vars == <<nodeVars, globalVars, matchVars, callVars, liveVars>>

----------------------------------------------------------------------------
\* Bounds of the model.

\* largest key_scans_num the node is configured with
MaxKeyScansNum == 2
\* number of scan messages delivered in one run
MaxScans == 3
\* largest number of global keypoints handed to the matcher
MaxGlobal == 3
\* largest number of local keypoints handed to the matcher
MaxLocal == 1

----------------------------------------------------------------------------
\* Program constants.

\* M_PI in units of 5 degrees
PI == 36
\* key_scan_interval_dist default 0.5 m, in units of 0.5 m
KeyScanIntervalDist == 1
\* key_scan_interval_yaw default 5 degrees (converted to radians in the constructor)
KeyScanIntervalYaw == 1
\* average_sdf_delta_th default 1.0
AverageSDFDeltaTH == 1
\* number of bins of the relative-orientation histogram
RelHistBins == 17

Abs(a) == IF a < 0 THEN -a ELSE a

----------------------------------------------------------------------------
\* class Pose

RECURSIVE ModifyYawUp(_)
ModifyYawUp(yaw) == IF yaw < -PI THEN ModifyYawUp(yaw + 2 * PI) ELSE yaw

RECURSIVE ModifyYawDown(_)
ModifyYawDown(yaw) == IF yaw > PI THEN ModifyYawDown(yaw - 2 * PI) ELSE yaw

\* Pose::modifyYaw: two while loops, the first adds 2 pi, the second subtracts
ModifyYaw(yaw) == ModifyYawDown(ModifyYawUp(yaw))

\* Pose(x, y, yaw): the constructor stores yaw as given
Pose(x, y, yaw) == [x |-> x, y |-> y, yaw |-> yaw]

\* Pose::setPose(x, y, yaw) and Pose::setPose(Pose p)
SetPose(x, y, yaw) == [x |-> x, y |-> y, yaw |-> ModifyYaw(yaw)]

\* Pose::setYaw
SetYaw(p, yaw) == [p EXCEPT !.yaw = ModifyYaw(yaw)]

----------------------------------------------------------------------------
\* class Keypoint, class SDFOrientationFeature

Keypoint(u, v, x, y, type) == [u |-> u, v |-> v, x |-> x, y |-> y, type |-> type]

SDFOrientationFeature(dominantOrientation, averageSDF, relativeOrientationHist) ==
    [dominantOrientation |-> dominantOrientation,
     averageSDF |-> averageSDF,
     relativeOrientationHist |-> relativeOrientationHist]

\* C++ vectors are indexed from 0; a vector is a sequence and At reads element j
At(vec, j) == vec[j + 1]

----------------------------------------------------------------------------
\* Messages delivered to the node.

\* a scan of n beams of which the first k are in range [1, 10]: the first one
\* sits on range_min, the others inside; the remaining beams are out of range
Beams(n, k) ==
    [i \in 1..n |-> IF i <= k THEN (IF i = 1 THEN 1 ELSE 5)
                    ELSE (IF i % 2 = 0 THEN 0 ELSE 11)]

\* beam counts (n, k) of the scans fed to the node: 1 of 20 in range (0.05),
\* 1 of 10 (exactly 0.1) and 2 of 10 (0.2)
ScanShapes == {<<20, 1>>, <<10, 1>>, <<10, 2>>}

LaserScan(stamp, shape) ==
    [stamp |-> stamp, range_min |-> 1, range_max |-> 10,
     ranges |-> Beams(shape[1], shape[2])]

\* positions odometry reports (units of 0.5 m): distances 1 and sqrt(2) occur
OdomPositions == {<<0, 0>>, <<1, 0>>, <<1, 1>>}

\* yaw angles odometry reports; getRPY returns a yaw in [-pi, pi]
OdomYaws == {-PI, PI - 2, PI}

\* an occupancy grid message: 3 x 3 cells, origin yaw 90 degrees
OccupancyGrid(yaw) ==
    [width |-> 3, height |-> 3, resolution |-> 1, origin |-> Pose(0, 0, yaw),
     data |-> <<0, 0, 0, 0, 100, 0, 0, 0, 0>>]

MapMsgs == {OccupancyGrid(PI \div 2)}

ZeroHist == [k \in 0..(RelHistBins - 1) |-> 0]

\* results the distance-field pipeline (buildDistanceFieldMap, GaussianBlur,
\* detectKeypoints, calculateFeatures) hands to mapCB in this model: one
\* local maximum
GlobalOutcomes ==
    {[keypoints |-> <<Keypoint(1, 1, 1, 1, 1)>>,
      features |-> <<SDFOrientationFeature(0, 1, ZeroHist)>>]}

----------------------------------------------------------------------------
\* scanCB: the validity test, lines 1055-1065.

\* number of beams with range_min <= r <= range_max
ValidScanNum(msg) ==
    Cardinality({i \in 1..Len(msg.ranges) :
                    msg.range_min <= msg.ranges[i] /\ msg.ranges[i] <= msg.range_max})

\* faulty variant of the validity test: the minimum ratio taken as 0.05
RateBelowTwentieth(msg) ==
    /\ Len(msg.ranges) # 0
    /\ 20 * ValidScanNum(msg) < Len(msg.ranges)

\* validScanRate < 0.1.  The rate is validScanNum / size in double arithmetic;
\* for an empty scan it is 0.0 / 0.0 = NaN and the comparison is false.
RateBelowMinimum(msg) ==
    /\ Len(msg.ranges) # 0
    /\ 10 * ValidScanNum(msg) < Len(msg.ranges)

\* faulty variant of the displacement test: thresholds reached count as exceeded
DisplacementReached(cur, prev) ==
    LET dx == cur.x - prev.x
        dy == cur.y - prev.y
        dyaw == ModifyYaw(cur.yaw - prev.yaw)
    IN  \/ dx * dx + dy * dy >= KeyScanIntervalDist * KeyScanIntervalDist
        \/ Abs(dyaw) >= KeyScanIntervalYaw

\* scanCB: the displacement test, lines 1076-1084.  dl = sqrt(dx^2 + dy^2) is
\* compared with a non-negative threshold, so the squares are compared.
DisplacementExceeded(cur, prev) ==
    LET dx == cur.x - prev.x
        dy == cur.y - prev.y
        dyaw == ModifyYaw(cur.yaw - prev.yaw)
    IN  \/ dx * dx + dy * dy > KeyScanIntervalDist * KeyScanIntervalDist
        \/ Abs(dyaw) > KeyScanIntervalYaw

\* faulty variant: the first keyframe taken without waiting for odometry
FirstKeyframeWithoutOdom(first, gotOdom) == first

\* line 1067: the first keyframe is taken when isFirst && gotOdom_
FirstKeyframeDue(first, gotOdom) == first /\ gotOdom

\* faulty variant: the new keyframe appended at the back
PushBack(vec, e) == Append(vec, e)

\* lines 1085-1086: vector::insert(begin(), e) puts e in front
InsertFront(vec, e) == <<e>> \o vec

\* faulty variant: the window cut at the front
ResizeKeepingLast(vec, n) == SubSeq(vec, Len(vec) - n + 1, Len(vec))

\* std::vector::resize(n) on a vector of at least n elements keeps the first n
Resize(vec, n) == SubSeq(vec, 1, n)

\* faulty variant: truncation only once the window is two over capacity
TruncateLate(vec, n) == IF Len(vec) > n + 1 THEN SubSeq(vec, 1, n) ELSE vec

\* lines 1087-1090: truncate once the window holds at least keyScansNum_ entries
Truncate(vec, n) == IF Len(vec) >= n THEN Resize(vec, n) ELSE vec

\* steps of the matching cycle, lines 1096-1110, in the order they run
MatchingCycle ==
    <<"buildLocalMap", "buildDistanceFieldMap", "GaussianBlur", "detectKeypoints",
      "calculateFeatures", "findCorrespondingFeatures", "generatePoses",
      "makeSDFKeypointsMarker", "publishPoses", "publishLocalMap",
      "publishSDFKeypoints", "publishLocalSDFKeypoints">>

\* faulty variant: the cycle waits for the window to overflow
CycleRunsOnOverflow(isKeyScanUpdated, size, n) == isKeyScanUpdated /\ size > n

\* line 1095: the cycle runs when this scan inserted a keyframe and the
\* window holds exactly keyScansNum_ entries
CycleRuns(isKeyScanUpdated, size, n) == isKeyScanUpdated /\ size = n

\* steps of mapCB, lines 810-816
MapIngestion ==
    <<"setMapInfo", "buildDistanceFieldMap", "GaussianBlur", "detectKeypoints",
      "calculateFeatures", "makeSDFKeypointsMarker", "publishSDFKeypoints">>

----------------------------------------------------------------------------
\* The callbacks.

\* mapCB, lines 809-819.  detectKeypoints sets mapOrigin_'s yaw again from
\* the grid it is given (line 413), here the same global grid.
MapCB(msg, out) ==
    /\ mapOrigin_' = SetYaw([mapOrigin_ EXCEPT !.x = msg.origin.x, !.y = msg.origin.y],
                            msg.origin.yaw)
    /\ mapData_' = [width |-> msg.width, height |-> msg.height,
                    resolution |-> msg.resolution, data |-> msg.data]
    /\ sdfKeypoints_' = out.keypoints
    /\ sdfOrientationFeatures_' = out.features
    /\ gotMap_' = TRUE
    /\ event' = [cb |-> "map"]
    /\ ran' = MapIngestion
    /\ UNCHANGED <<keyScansNum_, gotOdom_, odomPose_, keyScans_, keyPoses_, isFirst,
                   prevOdomPose, clock, matchVars, callVars, liveVars>>

\* odomCB, lines 821-831
OdomCB(x, y, yaw) ==
    /\ odomPose_' = SetPose(x, y, yaw)
    /\ gotOdom_' = TRUE
    /\ event' = [cb |-> "odom"]
    /\ ran' = <<>>
    /\ UNCHANGED <<keyScansNum_, gotMap_, mapOrigin_, mapData_, globalVars, keyScans_,
                   keyPoses_, isFirst, prevOdomPose, clock, matchVars, callVars, liveVars>>

\* scanCB, lines 1051-1112
ScanCB(msg) ==
    /\ event' = [cb |-> "scan", msg |-> msg]
    /\ clock' = clock + 1
    /\ IF RateBelowMinimum(msg)
       THEN \* lines 1062-1065: warn and return
            /\ ran' = <<>>
            /\ UNCHANGED <<keyScans_, keyPoses_, isFirst, prevOdomPose, mapOrigin_>>
       ELSE IF FirstKeyframeDue(isFirst, gotOdom_)
       THEN \* lines 1067-1073: the first keyframe
            /\ keyScans_' = Append(keyScans_, msg)
            /\ keyPoses_' = Append(keyPoses_, odomPose_)
            /\ prevOdomPose' = SetPose(odomPose_.x, odomPose_.y, odomPose_.yaw)
            /\ isFirst' = FALSE
            /\ ran' = <<>>
            /\ UNCHANGED mapOrigin_
       ELSE \* lines 1075-1111
            LET isKeyScanUpdated == DisplacementExceeded(odomPose_, prevOdomPose)
                scans == IF isKeyScanUpdated
                         THEN Truncate(InsertFront(keyScans_, msg), keyScansNum_)
                         ELSE keyScans_
                poses == IF isKeyScanUpdated
                         THEN Truncate(InsertFront(keyPoses_, odomPose_), keyScansNum_)
                         ELSE keyPoses_
                cycle == CycleRuns(isKeyScanUpdated, Len(scans), keyScansNum_)
            IN  /\ keyScans_' = scans
                /\ keyPoses_' = poses
                /\ prevOdomPose' = IF isKeyScanUpdated
                                   THEN SetPose(odomPose_.x, odomPose_.y, odomPose_.yaw)
                                   ELSE prevOdomPose
                /\ ran' = IF cycle THEN MatchingCycle ELSE <<>>
                   \* detectKeypoints(localMap, ...) sets mapOrigin_'s yaw to the
                   \* local grid's yaw (line 413), which is 0 (line 843)
                /\ mapOrigin_' = IF cycle THEN SetYaw(mapOrigin_, 0) ELSE mapOrigin_
                /\ UNCHANGED isFirst
    /\ UNCHANGED <<keyScansNum_, gotMap_, gotOdom_, mapData_, globalVars, odomPose_,
                   matchVars, callVars, liveVars>>

MapArrives == \E msg \in MapMsgs, out \in GlobalOutcomes : MapCB(msg, out)

OdomArrives == \E p \in OdomPositions, yaw \in OdomYaws : OdomCB(p[1], p[2], yaw)

ScanArrives ==
    /\ clock <= MaxScans
    /\ \E shape \in ScanShapes : ScanCB(LaserScan(clock, shape))

\* the matcher harness is idle while the node runs
MatchIdle ==
    /\ localSDFKeypoints = <<>>
    /\ localFeatures = <<>>
    /\ correspondingIndices = <<>>
    /\ pc = "idle"

\* the state the constructor leaves, lines 629-630 and 661; isFirst and
\* prevOdomPose are the statics of scanCB, lines 1052-1053
NodeInit ==
    /\ keyScansNum_ \in 1..MaxKeyScansNum
    /\ gotMap_ = FALSE
    /\ gotOdom_ = FALSE
    /\ mapOrigin_ = Pose(0, 0, 0)
    /\ mapData_ = [width |-> 0, height |-> 0, resolution |-> 0, data |-> <<>>]
    /\ odomPose_ = SetPose(0, 0, 0)
    /\ keyScans_ = <<>>
    /\ keyPoses_ = <<>>
    /\ isFirst = TRUE
    /\ prevOdomPose = Pose(0, 0, 0)
    /\ clock = 1
    /\ event = [cb |-> "none"]
    /\ ran = <<>>

\* no function harness holds a call while the node runs
CallIdle ==
    /\ input = <<>>
    /\ output = <<>>

\* the callbacks of lines 756-1115 are modelled with the constructor finished
\* and the sensor mounted at the body origin
LiveIdle ==
    /\ ctorPc = "done"
    /\ lookup = "done"
    /\ transform_ready_ = TRUE
    /\ tfBaseLink2Laser = Pose(0, 0, 0)
    /\ baseLink2Laser_ = Pose(0, 0, 0)
    /\ delivered = [map |-> 0, odom |-> 0, scan |-> 0]
    /\ shutdownRequested = FALSE

Init ==
    /\ NodeInit
    /\ sdfKeypoints_ = <<>>
    /\ sdfOrientationFeatures_ = <<>>
    /\ MatchIdle
    /\ CallIdle
    /\ LiveIdle

Next == MapArrives \/ OdomArrives \/ ScanArrives

Spec == Init /\ [][Next]_vars

----------------------------------------------------------------------------
\* findCorrespondingFeatures, lines 889-940.

\* faulty variant of the candidate filter: the keypoint type is not compared
PassesSDFFilterOnly(localKeypointType, localAverageSDF, j) ==
    Abs(localAverageSDF - At(sdfOrientationFeatures_, j).averageSDF) <= AverageSDFDeltaTH

\* lines 899-903: global keypoint j is a candidate for the local keypoint
\* when the types are equal and the average SDFs differ by at most the threshold
PassesFilters(localKeypointType, localAverageSDF, j) ==
    /\ localKeypointType = At(sdfKeypoints_, j).type
    /\ Abs(localAverageSDF - At(sdfOrientationFeatures_, j).averageSDF)
           <= AverageSDFDeltaTH

RECURSIVE HistSum(_, _, _)
HistSum(localRelOrientHist, j, k) ==
    IF k >= RelHistBins THEN 0
    ELSE Abs(localRelOrientHist[k]
             - At(sdfOrientationFeatures_, j).relativeOrientationHist[k])
         + HistSum(localRelOrientHist, j, k + 1)

\* lines 905-907: L1 distance of the two 17-bin histograms
HistScore(localRelOrientHist, j) == HistSum(localRelOrientHist, j, 0)

\* line 895-896: the trackers before the loop; idx1 and idx2 start
\* uninitialised and are read only after min1 (min2) has been assigned
TrackInit ==
    [isFirst |-> TRUE, isSecond |-> TRUE, idx1 |-> -1, idx2 |-> -1,
     min1 |-> -1, min2 |-> -1]

\* lines 909-929: update of the best and second-best trackers with candidate j
Track(t, j, sum) ==
    IF t.isFirst
    THEN [t EXCEPT !.min1 = sum, !.idx1 = j, !.isFirst = FALSE]
    ELSE IF t.isSecond
    THEN IF t.min1 < sum
         THEN [t EXCEPT !.min2 = sum, !.idx2 = j, !.isSecond = FALSE]
         ELSE [t EXCEPT !.min2 = t.min1, !.idx2 = t.idx1, !.min1 = sum, !.idx1 = j,
                        !.isSecond = FALSE]
    ELSE IF t.min1 > sum
    THEN [t EXCEPT !.min2 = t.min1, !.idx2 = t.idx1, !.min1 = sum, !.idx1 = j]
    ELSE t

\* lines 897-930: the loop over the global keypoints, from j on
RECURSIVE ScanGlobal(_, _, _, _)
ScanGlobal(localKeypoint, localFeature, j, t) ==
    IF j >= Len(sdfKeypoints_) THEN t
    ELSE IF ~PassesFilters(localKeypoint.type, localFeature.averageSDF, j)
    THEN ScanGlobal(localKeypoint, localFeature, j + 1, t)
    ELSE ScanGlobal(localKeypoint, localFeature, j + 1,
                    Track(t, j, HistScore(localFeature.relativeOrientationHist, j)))

\* faulty variant of the decision: a lone candidate is not accepted
DecideRatioOnly(t) ==
    IF t.min1 >= 0 /\ t.min2 >= 0 /\ 3 * t.min1 < 2 * t.min2 THEN t.idx1 ELSE -1

\* lines 932-937: (float)min1 * 1.5f < (float)min2 on small integers is
\* 3 * min1 < 2 * min2
Decide(t) ==
    IF t.min1 >= 0 /\ t.min2 >= 0 /\ 3 * t.min1 < 2 * t.min2 THEN t.idx1
    ELSE IF t.min1 >= 0 /\ t.min2 < 0 THEN t.idx1
    ELSE -1

FindCorrespondingFeatures(localKeypoints, localFeats) ==
    [i \in 1..Len(localKeypoints) |->
        Decide(ScanGlobal(localKeypoints[i], localFeats[i], 0, TrackInit))]

\* a relative-orientation histogram with a in bin 0 and b in bin 16
HistOf(a, b) ==
    [k \in 0..(RelHistBins - 1) |-> IF k = 0 THEN a ELSE IF k = RelHistBins - 1 THEN b ELSE 0]

\* global (keypoint, feature) pairs offered to the matcher: saddle or maximum,
\* average SDF 0 or 2, three histograms
GlobalKinds ==
    {[keypoint |-> Keypoint(0, 0, 0, 0, type),
      feature |-> SDFOrientationFeature(0, sdf, hist)] :
        type \in {0, 1}, sdf \in {0, 2}, hist \in {HistOf(2, 0), HistOf(2, 1), HistOf(3, 1)}}

\* local (keypoint, feature) pairs: their L1 scores against the three global
\* histograms are 1, 2 and 3
LocalKinds ==
    {[keypoint |-> Keypoint(0, 0, 0, 0, 1),
      feature |-> SDFOrientationFeature(0, 1, HistOf(1, 0))],
     [keypoint |-> Keypoint(0, 0, 0, 0, 0),
      feature |-> SDFOrientationFeature(0, 1, HistOf(1, 0))],
     [keypoint |-> Keypoint(0, 0, 0, 0, 1),
      feature |-> SDFOrientationFeature(0, 3, HistOf(1, 0))]}

SeqsUpTo(S, n) == UNION {[1..m -> S] : m \in 0..n}

\* the matcher is called on local keypoints with the global set in place
MatchInit ==
    /\ keyScansNum_ = 1
    /\ gotMap_ = TRUE
    /\ gotOdom_ = FALSE
    /\ mapOrigin_ = Pose(0, 0, 0)
    /\ mapData_ = [width |-> 0, height |-> 0, resolution |-> 0, data |-> <<>>]
    /\ odomPose_ = SetPose(0, 0, 0)
    /\ keyScans_ = <<>>
    /\ keyPoses_ = <<>>
    /\ isFirst = TRUE
    /\ prevOdomPose = Pose(0, 0, 0)
    /\ clock = 1
    /\ event = [cb |-> "none"]
    /\ ran = <<>>
    /\ \E g \in SeqsUpTo(GlobalKinds, MaxGlobal) :
          /\ sdfKeypoints_ = [j \in 1..Len(g) |-> g[j].keypoint]
          /\ sdfOrientationFeatures_ = [j \in 1..Len(g) |-> g[j].feature]
    /\ \E l \in SeqsUpTo(LocalKinds, MaxLocal) :
          /\ localSDFKeypoints = [i \in 1..Len(l) |-> l[i].keypoint]
          /\ localFeatures = [i \in 1..Len(l) |-> l[i].feature]
    /\ correspondingIndices = <<>>
    /\ pc = "call"
    /\ CallIdle
    /\ LiveIdle

\* line 1102: the call of findCorrespondingFeatures
FindCorresponding ==
    /\ pc = "call"
    /\ correspondingIndices' = FindCorrespondingFeatures(localSDFKeypoints, localFeatures)
    /\ pc' = "done"
    /\ UNCHANGED <<nodeVars, globalVars, localSDFKeypoints, localFeatures, callVars,
                   liveVars>>

MatchNext == FindCorresponding

SpecMatch == MatchInit /\ [][MatchNext]_vars

----------------------------------------------------------------------------
\* Vocabulary of the properties, stated independently of the callbacks.

Range(seq) == {seq[i] : i \in 1..Len(seq)}

StampsOf(window) == {window[i].stamp : i \in 1..Len(window)}

\* number of beams of a scan whose range lies in [range_min, range_max]
InRangeBeams(msg) ==
    Cardinality({i \in DOMAIN msg.ranges :
                    ~(msg.ranges[i] < msg.range_min) /\ ~(msg.ranges[i] > msg.range_max)})

\* the scan passed the validity test of the scan callback
ScanValid(msg) == ~RateBelowMinimum(msg)

\* absolute value of the yaw difference a - b wrapped into [-pi, pi]
AbsWrappedYaw(a, b) ==
    LET m == (a - b) % (2 * PI) IN IF m > PI THEN 2 * PI - m ELSE m

\* Euclidean distance above keyScanIntervalDist_ or wrapped yaw difference
\* above keyScanIntervalYaw_
Displaced(cur, prev) ==
    \/ (cur.x - prev.x) * (cur.x - prev.x) + (cur.y - prev.y) * (cur.y - prev.y)
           > KeyScanIntervalDist * KeyScanIntervalDist
    \/ AbsWrappedYaw(cur.yaw, prev.yaw) > KeyScanIntervalYaw

\* this step is a scan callback that put its scan into the window
Inserted == event'.cb = "scan" /\ keyScans_' # keyScans_

\* the steps named occur in the list of executed steps, in this order
RanInOrder(steps, executed) ==
    /\ \A n \in 1..Len(steps) : steps[n] \in Range(executed)
    /\ \A m, n \in 1..Len(steps) :
          m < n => \E a, b \in 1..Len(executed) :
                       a < b /\ executed[a] = steps[m] /\ executed[b] = steps[n]

\* local map build, local keypoints, features, correspondence, pose
\* generation, publication
CycleSteps ==
    <<"buildLocalMap", "detectKeypoints", "calculateFeatures",
      "findCorrespondingFeatures", "generatePoses", "publishPoses">>

\* the scan callback returned without touching the window or running anything
ScanIgnored ==
    /\ UNCHANGED <<keyScans_, keyPoses_, prevOdomPose, isFirst>>
    /\ ran' = <<>>

----------------------------------------------------------------------------
\* C1: after any sequence of map, odometry and scan callbacks the keyframe
\* window (keyScans_ / keyPoses_) never holds more than N = keyScansNum_
\* entries.
C1_WindowBounded ==
    /\ Len(keyScans_) <= keyScansNum_
    /\ Len(keyPoses_) <= keyScansNum_

\* a matching cycle has run with N = 1: the insertion that triggered it met
\* a window that already held N entries
C1_Witness ==
    /\ keyScansNum_ = 1
    /\ Len(keyScans_) = 1
    /\ Len(keyPoses_) = 1
    /\ ran = MatchingCycle

\* C2: in the Accumulating state a valid scan inserts a keyframe only when
\* the distance from the pose of the last retained keyframe exceeds
\* keyScanIntervalDist_ or the absolute wrapped yaw difference exceeds
\* keyScanIntervalYaw_; with neither exceeded the window and the reference
\* pose stay unchanged and no matching cycle runs.
C2_InsertOnlyWhenDisplaced ==
    [][(event'.cb = "scan" /\ ~isFirst /\ ScanValid(event'.msg))
         => /\ (keyScans_' # keyScans_ \/ keyPoses_' # keyPoses_)
                  => Displaced(odomPose_, prevOdomPose)
            /\ ~Displaced(odomPose_, prevOdomPose)
                  => /\ UNCHANGED <<keyScans_, keyPoses_, prevOdomPose>>
                     /\ ran' = <<>>]_vars

\* a valid scan arrived after the newest keyframe while the robot had moved
\* exactly the threshold distance, and it was not inserted
C2_Witness ==
    /\ event.cb = "scan"
    /\ ScanValid(event.msg)
    /\ ~isFirst
    /\ Len(keyScans_) >= 1
    /\ event.msg.stamp > keyScans_[1].stamp
    /\ odomPose_ # prevOdomPose
    /\ ~Displaced(odomPose_, prevOdomPose)
    /\ ran = <<>>

\* C3: the keyframe window is ordered newest-first (the front entry is the
\* most recently inserted keyframe, later entries are strictly older), and an
\* insertion removes only the oldest entries.
C3_NewestFirst ==
    [][/\ \A i, j \in 1..Len(keyScans_') :
             i < j => keyScans_'[i].stamp > keyScans_'[j].stamp
       /\ (Inserted /\ ~isFirst)
             => /\ keyScans_'[1] = event'.msg
                /\ keyPoses_'[1] = odomPose_
                /\ SubSeq(keyScans_', 2, Len(keyScans_'))
                      = SubSeq(keyScans_, 1, Len(keyScans_') - 1)
                /\ SubSeq(keyPoses_', 2, Len(keyPoses_'))
                      = SubSeq(keyPoses_, 1, Len(keyPoses_') - 1)
                /\ \A old \in StampsOf(keyScans_) \ StampsOf(keyScans_') :
                      \A kept \in StampsOf(keyScans_') : old < kept]_vars

\* a window of at least two keyframes whose front entry is the scan just
\* delivered
C3_Witness ==
    /\ Len(keyScans_) >= 2
    /\ event.cb = "scan"
    /\ keyScans_[1] = event.msg
    /\ keyPoses_[1] = odomPose_
    /\ keyPoses_[1] # keyPoses_[2]

\* C4 as stated: a scan whose fraction of in-range returns does not exceed
\* 0.1 is dropped, leaving the window, the reference pose and the
\* first-keyframe flag unchanged and running nothing.
C4_DroppedAtOrBelowMinimum ==
    [][(/\ event'.cb = "scan"
        /\ Len(event'.msg.ranges) > 0
        /\ 10 * InRangeBeams(event'.msg) <= Len(event'.msg.ranges))
         => ScanIgnored]_vars

\* C4 amended: a scan whose fraction of in-range returns is strictly below
\* 0.1 is dropped in every state: the window, the reference pose and the
\* first-keyframe flag stay unchanged, nothing is built, matched or published.
C4_DroppedBelowMinimum ==
    [][(/\ event'.cb = "scan"
        /\ Len(event'.msg.ranges) > 0
        /\ 10 * InRangeBeams(event'.msg) < Len(event'.msg.ranges))
         => ScanIgnored]_vars

\* a scan with 1 of 20 beams in range was delivered to a full window after
\* the robot had moved beyond the thresholds, and it is not in the window
C4_Witness ==
    /\ event.cb = "scan"
    /\ Len(event.msg.ranges) = 20
    /\ InRangeBeams(event.msg) = 1
    /\ ~isFirst
    /\ Len(keyScans_) = keyScansNum_
    /\ Displaced(odomPose_, prevOdomPose)
    /\ event.msg.stamp \notin StampsOf(keyScans_)
    /\ ran = <<>>

C6_CycleOnEveryFullInsertion ==
    [][(Inserted /\ Len(keyScans_') = keyScansNum_)
         => RanInOrder(CycleSteps, ran')]_vars

\* C6 amended: whenever an insertion other than that of the first keyframe
\* leaves the window with exactly N entries the local map is built and the
\* matching cycle runs within that scan callback, for every N >= 1; the
\* insertion of the first keyframe runs no cycle, also when N = 1.
C6_CycleOnFullInsertion ==
    [][Inserted
         => IF isFirst THEN ran' = <<>>
            ELSE Len(keyScans_') = keyScansNum_ => RanInOrder(CycleSteps, ran')]_vars

\* the scan just delivered filled a window of N >= 2 and the cycle ran
C6_Witness ==
    /\ keyScansNum_ >= 2
    /\ Len(keyScans_) = keyScansNum_
    /\ event.cb = "scan"
    /\ keyScans_[1] = event.msg
    /\ RanInOrder(CycleSteps, ran)

\* C7: if no global map has been received when a scan callback reaches a full
\* window after an insertion, findCorrespondingFeatures and generatePoses are
\* not executed in that cycle.
C7_NoMatchingWithoutMap ==
    [][(Inserted /\ Len(keyScans_') = keyScansNum_ /\ ~gotMap_)
         => /\ "findCorrespondingFeatures" \notin Range(ran')
            /\ "generatePoses" \notin Range(ran')]_vars

----------------------------------------------------------------------------
\* Vocabulary of the matcher properties.

\* global keypoints of the same type as local keypoint i whose average SDF
\* is within averageSDFDeltaTH_ of the local one
Candidates(i) ==
    {j \in 0..(Len(sdfKeypoints_) - 1) :
        /\ sdfKeypoints_[j + 1].type = localSDFKeypoints[i].type
        /\ localFeatures[i].averageSDF - sdfOrientationFeatures_[j + 1].averageSDF
               \in (-AverageSDFDeltaTH)..AverageSDFDeltaTH}

RECURSIVE L1(_, _, _)
L1(h, g, k) == IF k < 0 THEN 0 ELSE Abs(h[k] - g[k]) + L1(h, g, k - 1)

\* L1 histogram score of local feature i against global feature j
Score(i, j) ==
    L1(localFeatures[i].relativeOrientationHist,
       sdfOrientationFeatures_[j + 1].relativeOrientationHist, RelHistBins - 1)

\* a candidate with the lowest score
Best(i) == CHOOSE j \in Candidates(i) : \A k \in Candidates(i) : Score(i, j) <= Score(i, k)

\* a candidate with the lowest score among the others
SecondBest(i) ==
    CHOOSE j \in Candidates(i) \ {Best(i)} :
        \A k \in Candidates(i) \ {Best(i)} : Score(i, j) <= Score(i, k)

\* C8: for every local feature i findCorrespondingFeatures returns -1 or the
\* index of a global keypoint of the same type whose average SDF differs from
\* the local one by at most averageSDFDeltaTH_.
C8_MatchPassesFilters ==
    pc = "done"
      => \A i \in 1..Len(localSDFKeypoints) :
            \/ correspondingIndices[i] = -1
            \/ correspondingIndices[i] \in Candidates(i)

\* a match was returned although the global set also holds a keypoint of
\* another type and a keypoint of the same type with too distant an average SDF
C8_Witness ==
    /\ pc = "done"
    /\ \E i \in 1..Len(localSDFKeypoints) :
          /\ correspondingIndices[i] >= 0
          /\ \E j \in 1..Len(sdfKeypoints_) :
                sdfKeypoints_[j].type # localSDFKeypoints[i].type
          /\ \E j \in 1..Len(sdfKeypoints_) :
                /\ sdfKeypoints_[j].type = localSDFKeypoints[i].type
                /\ j - 1 \notin Candidates(i)

\* C9: whatever the order of the candidates, if the lowest score b1 and the
\* second-lowest score b2 among them satisfy b1 * 1.5 >= b2,
\* findCorrespondingFeatures returns -1 for that local feature.
C9_AmbiguousRejected ==
    pc = "done"
      => \A i \in 1..Len(localSDFKeypoints) :
            (/\ Cardinality(Candidates(i)) >= 2
             /\ 3 * Score(i, Best(i)) >= 2 * Score(i, SecondBest(i)))
              => correspondingIndices[i] = -1

\* C10: when exactly one global candidate passes the type and average-SDF
\* filters findCorrespondingFeatures returns its index whatever its score;
\* when none passes it returns -1.
C10_LoneCandidate ==
    pc = "done"
      => \A i \in 1..Len(localSDFKeypoints) :
            /\ Cardinality(Candidates(i)) = 1
                  => correspondingIndices[i] \in Candidates(i)
            /\ Candidates(i) = {} => correspondingIndices[i] = -1

\* the lone candidate, not the first global keypoint and with the highest
\* score of the model, was returned
C10_Witness ==
    /\ pc = "done"
    /\ Len(sdfKeypoints_) >= 2
    /\ \E i \in 1..Len(localSDFKeypoints) :
          /\ Cardinality(Candidates(i)) = 1
          /\ correspondingIndices[i] >= 1
          /\ Score(i, correspondingIndices[i]) >= 3

----------------------------------------------------------------------------
\* detectKeypoints, lines 403-448.
\*
\* Distance-field values are integer multiples of 0.01 m, so the default
\* keypoints_min_dist_from_map of 1.0 m is 100 and the default
\* gradient_square_th of 10e-4 m^2 is 10.  Map yaws are multiples of 90
\* degrees, whose sine and cosine are integers.

\* width of the grids handed to detectKeypoints
MaxWidth == 5

KeypointsMinDistFromMap == 100
GradientSquareTH == 10

Cos(yaw) == CASE yaw % (2 * PI) = 0 -> 1
              [] yaw % (2 * PI) = PI -> -1
              [] OTHER -> 0

Sin(yaw) == CASE yaw % (2 * PI) = PI \div 2 -> 1
              [] yaw % (2 * PI) = PI + PI \div 2 -> -1
              [] OTHER -> 0

\* distMap.at<float>(v, u)
DistAt(distMap, v, u) == distMap.at[v][u]

\* faulty variant: the cell to the left is read
CellLeftOf(map, u, v) == map.data[v * map.width + u]

\* map.data[n] with n = v * width + u, line 418
Cell(map, u, v) == map.data[v * map.width + u + 1]

\* lines 422-423 and 473-474
GradX(d, v, u) ==
    - DistAt(d, v - 1, u - 1) - DistAt(d, v, u - 1) - DistAt(d, v + 1, u - 1)
    + DistAt(d, v - 1, u + 1) + DistAt(d, v, u + 1) + DistAt(d, v + 1, u + 1)

GradY(d, v, u) ==
    - DistAt(d, v - 1, u - 1) - DistAt(d, v - 1, u) - DistAt(d, v - 1, u + 1)
    + DistAt(d, v + 1, u - 1) + DistAt(d, v + 1, u) + DistAt(d, v + 1, u + 1)

\* lines 425-428
Dxx(d, v, u) == DistAt(d, v, u - 1) - 2 * DistAt(d, v, u) + DistAt(d, v, u + 1)

Dyy(d, v, u) == DistAt(d, v - 1, u) - 2 * DistAt(d, v, u) + DistAt(d, v + 1, u)

Dxy(d, v, u) ==
    DistAt(d, v - 1, u - 1) - DistAt(d, v - 1, u) - DistAt(d, v, u - 1)
    + 2 * DistAt(d, v, u) - DistAt(d, v, u + 1) - DistAt(d, v + 1, u)
    + DistAt(d, v + 1, u + 1)

Det(d, v, u) == Dxx(d, v, u) * Dyy(d, v, u) - Dxy(d, v, u) * Dxy(d, v, u)

\* line 419: the cell is skipped
Skipped(map, d, u, v) ==
    Cell(map, u, v) # 0 \/ DistAt(d, v, u) < KeypointsMinDistFromMap

\* faulty variant: one flat component is enough
FlatInOneDirection(dx, dy) == dx * dx < GradientSquareTH \/ dy * dy < GradientSquareTH

\* line 430
Flat(dx, dy) == dx * dx < GradientSquareTH /\ dy * dy < GradientSquareTH

\* faulty variant: a rising dxx taken for a maximum
LabelByRisingDxx(det, dxx) ==
    IF det > 0 /\ dxx > 0 THEN <<1>>
    ELSE IF det > 0 /\ dxx < 0 THEN <<-1>>
    ELSE IF det < 0 THEN <<0>>
    ELSE <<>>

\* lines 438-443: the types pushed for a flat cell, none when no branch is
\* taken
Label(det, dxx) ==
    IF det > 0 /\ dxx < 0 THEN <<1>>
    ELSE IF det > 0 /\ dxx > 0 THEN <<-1>>
    ELSE IF det < 0 THEN <<0>>
    ELSE <<>>

\* lines 418-444: the keypoints one cell contributes
CellKeypoints(map, d, u, v) ==
    IF Skipped(map, d, u, v) THEN <<>>
    ELSE IF ~Flat(GradX(d, v, u), GradY(d, v, u)) THEN <<>>
    ELSE LET yaw == map.origin.yaw
             xx == u * map.resolution
             yy == v * map.resolution
             x == xx * Cos(yaw) - yy * Sin(yaw) + map.origin.x
             y == xx * Sin(yaw) + yy * Cos(yaw) + map.origin.y
             types == Label(Det(d, v, u), Dxx(d, v, u))
         IN  [k \in 1..Len(types) |-> Keypoint(u, v, x, y, types[k])]

\* lines 414-446: u is the outer loop and v the inner one
RECURSIVE DetectFrom(_, _, _, _)
DetectFrom(map, d, u, v) ==
    IF u >= map.width - 1 THEN <<>>
    ELSE IF v >= map.height - 1 THEN DetectFrom(map, d, u + 1, 1)
    ELSE CellKeypoints(map, d, u, v) \o DetectFrom(map, d, u, v + 1)

DetectKeypoints(map, d) == DetectFrom(map, d, 1, 1)

\* columns of the distance fields handed to detectKeypoints, top to bottom:
\* a ridge, a valley, a slope and a dip below the minimum distance
ColumnProfiles ==
    {<<101, 102, 101>>, <<101, 100, 101>>, <<100, 101, 102>>, <<100, 99, 100>>}

\* the cv::Mat whose column u is cols[u + 1]
DistMapOf(cols) ==
    [rows |-> Len(cols[1]), cols |-> Len(cols),
     at |-> [v \in 0..(Len(cols[1]) - 1) |->
                [u \in 0..(Len(cols) - 1) |-> cols[u + 1][v + 1]]]]

\* occupancy values of a cell: free, unknown, occupied
CellValues == {0, -1, 100}

\* the grid of a distance field: origin (1, 0) turned by 90 degrees, border
\* cells free and the interior cells of the middle row given by inner
GridOf(d, inner) ==
    [width |-> d.cols, height |-> d.rows, resolution |-> 1,
     origin |-> Pose(1, 0, PI \div 2),
     data |-> [n \in 1..(d.cols * d.rows) |->
                 LET u == (n - 1) % d.cols
                     v == (n - 1) \div d.cols
                 IN  IF v = 1 /\ u >= 1 /\ u <= d.cols - 2 THEN inner[u] ELSE 0]]

DetectInit ==
    /\ NodeInit
    /\ keyScansNum_ = 1
    /\ sdfKeypoints_ = <<>>
    /\ sdfOrientationFeatures_ = <<>>
    /\ localSDFKeypoints = <<>>
    /\ localFeatures = <<>>
    /\ correspondingIndices = <<>>
    /\ LiveIdle
    /\ pc = "detect"
    /\ \E cols \in [1..MaxWidth -> ColumnProfiles],
          inner \in [1..(MaxWidth - 2) -> CellValues] :
          input = [map |-> GridOf(DistMapOf(cols), inner), distMap |-> DistMapOf(cols)]
    /\ output = <<>>

\* a call of detectKeypoints; line 413 stores the grid's yaw in mapOrigin_
Detect ==
    /\ pc = "detect"
    /\ output' = DetectKeypoints(input.map, input.distMap)
    /\ mapOrigin_' = SetYaw(mapOrigin_, input.map.origin.yaw)
    /\ pc' = "detected"
    /\ UNCHANGED <<keyScansNum_, gotMap_, gotOdom_, mapData_, odomPose_, keyScans_,
                   keyPoses_, isFirst, prevOdomPose, clock, event, ran, globalVars,
                   localSDFKeypoints, localFeatures, correspondingIndices, input,
                   liveVars>>

DetectNext == Detect

SpecDetect == DetectInit /\ [][DetectNext]_vars

\* vocabulary of the claims about detectKeypoints
InteriorCells(map) == (1..(map.width - 2)) \X (1..(map.height - 2))

Neighbourhood(d, u, v) ==
    [dv \in -1..1 |-> [du \in -1..1 |-> DistAt(d, v + dv, u + du)]]

\* the types of the keypoints emitted at cell (u, v)
TypesAt(kps, u, v) == {kps[k].type : k \in {i \in 1..Len(kps) : kps[i].u = u /\ kps[i].v = v}}

----------------------------------------------------------------------------
\* C11: every keypoint detectKeypoints emits sits on an interior free cell
\* that passes the minimum-distance test and the flatness test, its type is 1
\* when det > 0 and dxx < 0, -1 when det > 0 and dxx > 0, and 0 when det < 0,
\* never -2; and a cell that passes the tests gets exactly one keypoint when
\* one of these three cases holds and none otherwise.
C11_LabelFromSigns ==
    pc = "detected" =>
        LET map == input.map
            d == input.distMap
        IN  /\ \A k \in 1..Len(output) :
                 LET u == output[k].u
                     v == output[k].v
                 IN  /\ <<u, v>> \in InteriorCells(map)
                     /\ Cell(map, u, v) = 0
                     /\ DistAt(d, v, u) >= KeypointsMinDistFromMap
                     /\ output[k].type \in {-1, 0, 1}
            /\ \A c \in InteriorCells(map) :
                 LET u == c[1]
                     v == c[2]
                     det == Det(d, v, u)
                     dxx == Dxx(d, v, u)
                     passes == /\ Cell(map, u, v) = 0
                               /\ DistAt(d, v, u) >= KeypointsMinDistFromMap
                               /\ Flat(GradX(d, v, u), GradY(d, v, u))
                     emitted == {k \in 1..Len(output) : output[k].u = u /\ output[k].v = v}
                 IN  /\ Cardinality(emitted) <= 1
                     /\ (passes /\ det > 0 /\ dxx < 0) => TypesAt(output, u, v) = {1}
                     /\ (passes /\ det > 0 /\ dxx > 0) => TypesAt(output, u, v) = {-1}
                     /\ (passes /\ det < 0) => TypesAt(output, u, v) = {0}
                     /\ (passes /\ ~(det > 0 /\ dxx # 0) /\ ~(det < 0)) => emitted = {}
                     /\ ~passes => emitted = {}

\* one call emits a maximum, a minimum and a saddle
C11_Witness ==
    /\ pc = "detected"
    /\ {output[k].type : k \in 1..Len(output)} = {-1, 0, 1}

----------------------------------------------------------------------------
\* the occupancy value the grid holds for cell (u, v)
Occupancy(map, u, v) == map.data[v * map.width + u + 1]

\* two different interior cells whose 3 x 3 neighbourhoods of distance values
\* are the same
Twins(map, d) ==
    {p \in InteriorCells(map) \X InteriorCells(map) :
        /\ p[1] # p[2]
        /\ Neighbourhood(d, p[1][1], p[1][2]) = Neighbourhood(d, p[2][1], p[2][2])}

\* C12 as stated: two interior cells with identical 3 x 3 neighbourhoods of
\* distance values get the same outcome from detectKeypoints (the same type,
\* or both no keypoint), wherever they lie.
C12_SameNeighbourhoodSameOutcome ==
    pc = "detected" =>
        \A p \in Twins(input.map, input.distMap) :
            TypesAt(output, p[1][1], p[1][2]) = TypesAt(output, p[2][1], p[2][2])

\* C12 amended: two interior cells with identical 3 x 3 neighbourhoods of
\* distance values that are both free or both not free get the same outcome,
\* wherever they lie; a cell that is not free is never a keypoint.
C12_SameNeighbourhoodAndOccupancy ==
    pc = "detected" =>
        /\ \A p \in Twins(input.map, input.distMap) :
              (Occupancy(input.map, p[1][1], p[1][2]) = 0
                  <=> Occupancy(input.map, p[2][1], p[2][2]) = 0)
              => TypesAt(output, p[1][1], p[1][2]) = TypesAt(output, p[2][1], p[2][2])
        /\ \A c \in InteriorCells(input.map) :
              Occupancy(input.map, c[1], c[2]) # 0 => TypesAt(output, c[1], c[2]) = {}

\* two free cells with the same neighbourhood both became keypoints
C12_Witness ==
    /\ pc = "detected"
    /\ \E p \in Twins(input.map, input.distMap) :
          /\ Occupancy(input.map, p[1][1], p[1][2]) = 0
          /\ Occupancy(input.map, p[2][1], p[2][2]) = 0
          /\ TypesAt(output, p[1][1], p[1][2]) # {}
          /\ TypesAt(output, p[2][1], p[2][2]) # {}

----------------------------------------------------------------------------
\* calculateFeatures, lines 450-517.
\*
\* A gradient direction is an angle in degrees.  atan2 of an integer gradient
\* is a multiple of 10 degrees only on the axes; any other direction is
\* represented by the midpoint of the 10 degree bin it lies in, which has the
\* same bin (line 478) and the same truncated |dt| / 10 (line 508) as every
\* angle of the open bin.

\* largest number of directions handed to the descriptor
MaxDirections == 3

OrientBins == 36

\* (int)(a / b) for b > 0: truncation toward zero
Trunc(a, b) == IF a >= 0 THEN a \div b ELSE -((-a) \div b)

\* tan(10 k degrees) * 10^6 for k = 1 .. 8
TanMicro == <<176327, 363970, 577350, 839100, 1191754, 1732051, 2747477, 5671282>>

\* atan2(dy, dx) in degrees for dy >= 0 and dx >= 0, not both 0
FirstQuadrant(dy, dx) ==
    IF dy = 0 THEN 0
    ELSE IF dx = 0 THEN 90
    ELSE 10 * Cardinality({k \in 1..8 : 1000000 * dy > TanMicro[k] * dx}) + 5

\* lines 475-477: t in [0, 360)
Orientation(dy, dx) ==
    IF dx = 0 /\ dy = 0 THEN 0
    ELSE LET a == FirstQuadrant(Abs(dy), Abs(dx))
         IN  IF dy >= 0 THEN (IF dx >= 0 THEN a ELSE 180 - a)
             ELSE (IF dx >= 0 THEN 360 - a ELSE 180 + a)

\* lines 478-483: the 36-bin histogram of the directions
OrientHist(orientations) ==
    [j \in 0..(OrientBins - 1) |->
        Cardinality({k \in 1..Len(orientations) : orientations[k] \div 10 = j})]

\* lines 489-498: the first bin holding the largest count, as an angle
DomOrient(orientHist) ==
    10 * (CHOOSE j \in 0..(OrientBins - 1) :
             /\ \A k \in 0..(OrientBins - 1) : orientHist[k] <= orientHist[j]
             /\ \A k \in 0..(j - 1) : orientHist[k] < orientHist[j])

\* lines 504-507
RECURSIVE WrapDown(_)
WrapDown(dt) == IF dt > 180 THEN WrapDown(dt - 360) ELSE dt

RECURSIVE WrapUp(_)
WrapUp(dt) == IF dt < -180 THEN WrapUp(dt + 360) ELSE dt

\* faulty variant: the two loops left out
RelOrientIdxUnwrapped(domOrient, t) == Abs(domOrient - t) \div 10

\* lines 503-508
RelOrientIdx(domOrient, t) == Abs(WrapUp(WrapDown(domOrient - t))) \div 10

\* lines 500-511: bins 17 and 18 are not recorded
RelOrientHist(domOrient, orientations) ==
    [b \in 0..(RelHistBins - 1) |->
        Cardinality({k \in 1..Len(orientations) :
                        RelOrientIdx(domOrient, orientations[k]) = b})]

\* lines 489-511
RelativeHistogram(orientations) ==
    RelOrientHist(DomOrient(OrientHist(orientations)), orientations)

\* a float quotient a / b: the dividend and the divisor; 0 / 0 is NaN
Quotient(a, b) == [num |-> a, den |-> b]

IsNaN(q) == q.num = 0 /\ q.den = 0

IsZero(q) == q.num = 0 /\ q.den # 0

\* the matrix as the reads of lines 470-474 see it: a read one row or one
\* column past the matrix returns whatever lies there, junk
Padded(d, junk) ==
    [rows |-> d.rows, cols |-> d.cols,
     at |-> [v \in 0..d.rows |->
               [u \in 0..d.cols |->
                  IF v < d.rows /\ u < d.cols THEN d.at[v][u] ELSE junk]]]

\* lines 463-465: the cells of the window, u outer and v inner
WindowCells(uo, vo, r) ==
    IF r < 0 THEN <<>>
    ELSE [k \in 1..((2 * r + 1) * (2 * r + 1)) |->
             <<uo - r + ((k - 1) \div (2 * r + 1)), vo - r + ((k - 1) % (2 * r + 1))>>]

\* line 467: the cell is used
Used(d, u, v) == ~(u < 1 \/ d.cols - 1 < u \/ v < 1 \/ d.rows - 1 < v)

RECURSIVE SelectUsed(_, _, _)
SelectUsed(d, cells, k) ==
    IF k > Len(cells) THEN <<>>
    ELSE (IF Used(d, cells[k][1], cells[k][2]) THEN <<cells[k]>> ELSE <<>>)
         \o SelectUsed(d, cells, k + 1)

RECURSIVE SumDist(_, _, _)
SumDist(d, cells, k) ==
    IF k > Len(cells) THEN 0
    ELSE DistAt(d, cells[k][2], cells[k][1]) + SumDist(d, cells, k + 1)

\* lines 455-514 for one keypoint
Feature(distMap, keypoint, r, junk) ==
    LET d == Padded(distMap, junk)
        cells == SelectUsed(distMap, WindowCells(keypoint.u, keypoint.v, r), 1)
        distSum == SumDist(d, cells, 1)
        cellNum == Len(cells)
        orientations == [k \in 1..Len(cells) |->
                            Orientation(GradY(d, cells[k][2], cells[k][1]),
                                        GradX(d, cells[k][2], cells[k][1]))]
        domOrient == DomOrient(OrientHist(orientations))
    IN  SDFOrientationFeature((domOrient * PI) \div 180,
                              Quotient(distSum, cellNum),
                              RelOrientHist(domOrient, orientations))

CalculateFeatures(distMap, keypoints, sdfFeatureWindowSize, mapResolution, junk) ==
    [i \in 1..Len(keypoints) |->
        Feature(distMap, keypoints[i], Trunc(sdfFeatureWindowSize, mapResolution), junk)]

\* window sizes the node is configured with, in cells: the parameter is read
\* unchecked, so a negative size is taken as it is
WindowSizes == {-1, 0, 1}

\* values a read past the matrix returns
JunkValues == {0, 101}

FeaturesInit ==
    /\ NodeInit
    /\ keyScansNum_ = 1
    /\ sdfKeypoints_ = <<>>
    /\ sdfOrientationFeatures_ = <<>>
    /\ localSDFKeypoints = <<>>
    /\ localFeatures = <<>>
    /\ correspondingIndices = <<>>
    /\ LiveIdle
    /\ pc = "features"
    /\ \E cols \in [1..MaxWidth -> ColumnProfiles], size \in WindowSizes :
          LET d == DistMapOf(cols)
              map == GridOf(d, [u \in 1..(MaxWidth - 2) |-> 0])
          IN  input = [distMap |-> d, keypoints |-> DetectKeypoints(map, d),
                       sdfFeatureWindowSize_ |-> size, mapResolution_ |-> map.resolution]
    /\ output = <<>>

\* a call of calculateFeatures on the keypoints detectKeypoints found
Features ==
    /\ pc = "features"
    /\ \E junk \in JunkValues :
          output' = CalculateFeatures(input.distMap, input.keypoints,
                                      input.sdfFeatureWindowSize_, input.mapResolution_,
                                      junk)
    /\ pc' = "featured"
    /\ UNCHANGED <<nodeVars, globalVars, localSDFKeypoints, localFeatures,
                   correspondingIndices, input, liveVars>>

FeaturesNext == Features

SpecFeatures == FeaturesInit /\ [][FeaturesNext]_vars

\* the cells of the window of a keypoint that line 467 lets through
UsedCells(d, keypoint, r) ==
    {c \in ((keypoint.u - r)..(keypoint.u + r)) \X ((keypoint.v - r)..(keypoint.v + r)) :
        1 <= c[1] /\ c[1] <= d.cols - 1 /\ 1 <= c[2] /\ c[2] <= d.rows - 1}

\* the half-width r of line 455
HalfWidth(call) == Trunc(call.sdfFeatureWindowSize_, call.mapResolution_)

----------------------------------------------------------------------------
\* C16: a keypoint whose feature window holds no valid cell gets a feature
\* whose average SDF is the number 0, computed without a division by zero, and
\* whose dominant orientation is 0.
C16_EmptyWindowSentinel ==
    pc = "featured" =>
        \A i \in 1..Len(input.keypoints) :
            UsedCells(input.distMap, input.keypoints[i], HalfWidth(input)) = {}
            => /\ IsZero(output[i].averageSDF)
               /\ output[i].dominantOrientation = 0

----------------------------------------------------------------------------
\* The descriptor of lines 489-511 on a list of directions and on the same
\* list turned by an offset.

\* directions and offsets in degrees
Directions == {2, 5, 9, 95, 185, 355}

Offsets == {5, 10, 180, 270}

\* every direction turned by the offset, modulo 360
Rotated(orientations, offset) ==
    [k \in 1..Len(orientations) |-> (orientations[k] + offset) % 360]

DescriptorInit ==
    /\ NodeInit
    /\ keyScansNum_ = 1
    /\ sdfKeypoints_ = <<>>
    /\ sdfOrientationFeatures_ = <<>>
    /\ localSDFKeypoints = <<>>
    /\ localFeatures = <<>>
    /\ correspondingIndices = <<>>
    /\ LiveIdle
    /\ pc = "describe"
    /\ \E o \in SeqsUpTo(Directions, MaxDirections), offset \in Offsets :
          input = [orientations |-> o, offset |-> offset]
    /\ output = <<>>

Describe ==
    /\ pc = "describe"
    /\ output' = [relOrientHist |-> RelativeHistogram(input.orientations),
                  rotated |-> RelativeHistogram(Rotated(input.orientations, input.offset))]
    /\ pc' = "described"
    /\ UNCHANGED <<nodeVars, globalVars, localSDFKeypoints, localFeatures,
                   correspondingIndices, input, liveVars>>

DescriptorNext == Describe

SpecDescriptor == DescriptorInit /\ [][DescriptorNext]_vars

\* exactly one bin of the 36-bin histogram holds the largest count
SingleMode(orientations) ==
    LET h == OrientHist(orientations)
    IN  Cardinality({j \in 0..(OrientBins - 1) :
                        \A k \in 0..(OrientBins - 1) : h[k] <= h[j]}) = 1

\* C13 as stated: the 17-bin relative-orientation histogram is the same when
\* every direction is turned by the same offset before the dominant
\* orientation is computed.
C13_RotationInvariant ==
    pc = "described" => output.rotated = output.relOrientHist

\* C13 amended: the histogram is the same when the offset is a multiple of
\* the 10 degree bin width and one bin of the 36-bin histogram holds more
\* directions than any other.
C13_RotationInvariantOnBins ==
    (pc = "described" /\ input.offset % 10 = 0 /\ SingleMode(input.orientations))
    => output.rotated = output.relOrientHist

\* directions in several bins with a single mode, across the 0 / 360 seam,
\* were turned by a multiple of 10 degrees
C13_Witness ==
    /\ pc = "described"
    /\ input.offset % 10 = 0
    /\ SingleMode(input.orientations)
    /\ \E k \in 1..(RelHistBins - 1) : output.relOrientHist[k] > 0
    /\ \E i, j \in 1..Len(input.orientations) :
          input.orientations[i] + input.offset >= 360
          /\ input.orientations[j] + input.offset < 360
    /\ output.rotated = output.relOrientHist

----------------------------------------------------------------------------
\* computeMatchingRate, lines 942-976, and generatePoses, lines 978-1049.
\*
\* In this section lengths are integer multiples of 0.01 m, as in the
\* distance field: the grid resolution is 50 and keypoints_min_dist_from_map
\* is 100.  Angles are multiples of 90 degrees.  matching_rate_th is in
\* tenths, so the default 0.1 is 1.

\* largest random_samples_num the node is configured with
MaxSamples == 4

\* xy2uv, lines 334-343, on the stored global map
XY2UV(x, y) ==
    LET dx == x - mapOrigin_.x
        dy == y - mapOrigin_.y
        yaw == -mapOrigin_.yaw
        xx == dx * Cos(yaw) - dy * Sin(yaw)
        yy == dx * Sin(yaw) + dy * Cos(yaw)
    IN  <<Trunc(xx, mapData_.resolution), Trunc(yy, mapData_.resolution)>>

\* mapData_[n]
MapDataAt(n) == mapData_.data[n + 1]

\* lines 953-957: beam i of the scan is counted as valid
BeamCounted(scan, i) ==
    LET r == At(scan.ranges, i)
    IN  ~(r < scan.range_min \/ scan.range_max < r) /\ ~(r < KeypointsMinDistFromMap)

\* lines 960-973: the endpoint of beam i lies on or next to an occupied cell
BeamMatches(scan, i, sensorX, sensorY, sensorYaw) ==
    LET r == At(scan.ranges, i)
        t == i * scan.angle_increment + scan.angle_min + sensorYaw
        uv == XY2UV(r * Cos(t) + sensorX, r * Sin(t) + sensorY)
        u == uv[1]
        v == uv[2]
        n0 == v * mapData_.width + u
    IN  /\ 1 <= u /\ u < mapData_.width - 1 /\ 1 <= v /\ v < mapData_.height - 1
        /\ \/ MapDataAt(n0) = 100
           \/ MapDataAt(n0 - mapData_.width) = 100
           \/ MapDataAt(n0 - 1) = 100
           \/ MapDataAt(n0 + 1) = 100
           \/ MapDataAt(n0 + mapData_.width) = 100

\* line 949: the scan computeMatchingRate casts, keyScans_[size - 1]
CastScan(window) == At(window, Len(window) - 1)

\* lines 942-976
ComputeMatchingRate(pose) ==
    LET yaw == baseLink2Laser_.yaw
        sensorX == baseLink2Laser_.x * Cos(yaw) - baseLink2Laser_.y * Sin(yaw) + pose.x
        sensorY == baseLink2Laser_.x * Sin(yaw) + baseLink2Laser_.y * Cos(yaw) + pose.y
        sensorYaw == yaw + pose.yaw
        scan == CastScan(keyScans_)
        counted == {i \in 0..(Len(scan.ranges) - 1) : BeamCounted(scan, i)}
        matching == {i \in counted : BeamMatches(scan, i, sensorX, sensorY, sensorYaw)}
    IN  Quotient(Cardinality(matching), Cardinality(counted))

\* rate < matchingRateTH_ on doubles: a NaN rate compares false
Below(rate, th) == rate.den # 0 /\ 10 * rate.num < th * rate.den

\* lines 1018-1021 and 1036-1039: the pose is dropped
Dropped(x, y, yaw, th) == th > 0 /\ Below(ComputeMatchingRate(SetPose(x, y, yaw)), th)

\* faulty variant: every variant but the first is turned
OppositeAfterFirst(addOppositeSamples, j) == addOppositeSamples /\ j >= 1

\* line 1032: variant j gets the opposite heading
Opposite(addOppositeSamples, j) == addOppositeSamples /\ j % 2 = 1

\* lines 988-1015 for candidate i: the sensor pose, the test of its cell and
\* the body pose
Candidate(currentOdomPose, localKeypoint, localFeature, idx) ==
    LET dx == localKeypoint.x - currentOdomPose.x
        dy == localKeypoint.y - currentOdomPose.y
        localDomOrient == localFeature.dominantOrientation
        dOrient == currentOdomPose.yaw - localDomOrient
        targetKeypoint == At(sdfKeypoints_, idx)
        targetDomOrient == At(sdfOrientationFeatures_, idx).dominantOrientation
        dDomOrient == localDomOrient - targetDomOrient
        sensorX == dx * Cos(dDomOrient) - dy * Sin(dDomOrient) + targetKeypoint.x
        sensorY == dx * Sin(dDomOrient) + dy * Cos(dDomOrient) + targetKeypoint.y
        sensorYaw == targetDomOrient + dOrient
        uv == XY2UV(sensorX, sensorY)
        u == uv[1]
        v == uv[2]
        byaw == baseLink2Laser_.yaw
    IN  [passes |-> /\ ~(u < 0 \/ mapData_.width <= u \/ v < 0 \/ mapData_.height <= v)
                    /\ MapDataAt(v * mapData_.width + u) = 0,
         sensor |-> [x |-> sensorX, y |-> sensorY, yaw |-> sensorYaw],
         base |-> [x |-> sensorX - baseLink2Laser_.x * Cos(byaw)
                                 + baseLink2Laser_.y * Sin(byaw),
                   y |-> sensorY - baseLink2Laser_.x * Sin(byaw)
                                 - baseLink2Laser_.y * Cos(byaw),
                   yaw |-> sensorYaw - byaw]]

\* lines 1028-1035: the variants of a body pose, before the matching-rate
\* filter; noise[j + 1] holds the three nrand draws of variant j
Variants(base, par, noise) ==
    [k \in 1..par.randomSamplesNum_ |->
        [x |-> base.x + noise[k][1],
         y |-> base.y + noise[k][2],
         yaw |-> IF Opposite(par.addOppositeSamples_, k - 1)
                 THEN base.yaw + PI + noise[k][3]
                 ELSE base.yaw + noise[k][3],
         angularNoise |-> noise[k][3]]]

RECURSIVE KeepUndropped(_, _, _)
KeepUndropped(variants, th, k) ==
    IF k > Len(variants) THEN <<>>
    ELSE (IF Dropped(variants[k].x, variants[k].y, variants[k].yaw, th) THEN <<>>
          ELSE <<[x |-> variants[k].x, y |-> variants[k].y, yaw |-> variants[k].yaw]>>)
         \o KeepUndropped(variants, th, k + 1)

\* lines 984-1046 for candidate i: what it generates and what it adds to poses
Hypotheses(currentOdomPose, localKeypoint, localFeature, idx, par, noise) ==
    IF idx < 0
    THEN [matched |-> FALSE, passes |-> FALSE, base |-> Pose(0, 0, 0),
          variants |-> <<>>, poses |-> <<>>]
    ELSE LET c == Candidate(currentOdomPose, localKeypoint, localFeature, idx)
             variants == IF c.passes /\ par.addRandomSamples_
                         THEN Variants(c.base, par, noise) ELSE <<>>
         IN  [matched |-> TRUE, passes |-> c.passes, base |-> c.base,
              variants |-> variants,
              poses |-> IF ~c.passes THEN <<>>
                        ELSE IF ~par.addRandomSamples_
                        THEN (IF Dropped(c.base.x, c.base.y, c.base.yaw, par.matchingRateTH_)
                              THEN <<>> ELSE <<c.base>>)
                        ELSE KeepUndropped(variants, par.matchingRateTH_, 1)]

RECURSIVE Concat(_, _)
Concat(hyps, i) == IF i > Len(hyps) THEN <<>> ELSE hyps[i].poses \o Concat(hyps, i + 1)

\* lines 978-1049; noise[i + 1] holds the draws made for candidate i
GeneratePoses(currentOdomPose, localKeypoints, localFeats, indices, par, noise) ==
    LET hyps == [i \in 1..Len(indices) |->
                    Hypotheses(currentOdomPose, localKeypoints[i], localFeats[i],
                               indices[i], par, noise[i])]
    IN  [candidates |-> hyps, poses |-> Concat(hyps, 1)]

\* the global map generatePoses is called on: 5 x 3 cells of 0.5 m, cell (2, 1) occupied
\* and cell (1, 2) unknown
PosesGrid ==
    [width |-> 5, height |-> 3, resolution |-> 50,
     data |-> <<0, 0, 0, 0, 0,
                0, 0, 100, 0, 0,
                0, -1, 0, 0, 0>>]

\* its keypoints: a maximum at cell (1, 1) and one at cell (3, 1) whose
\* dominant orientation is 90 degrees
PosesKeypoints == <<Keypoint(1, 1, 50, 50, 1), Keypoint(3, 1, 150, 50, 1)>>

PosesFeatures ==
    <<SDFOrientationFeature(0, Quotient(100, 1), ZeroHist),
      SDFOrientationFeature(PI \div 2, Quotient(100, 1), ZeroHist)>>

\* scans of four beams a quarter turn apart, all within [range_min,
\* range_max]: one with every beam nearer than keypoints_min_dist_from_map
\* and one with two beams at 1 m
VerificationScans ==
    {[stamp |-> 1, range_min |-> 10, range_max |-> 1000, angle_min |-> 0,
      angle_increment |-> PI \div 2, ranges |-> r] :
        r \in {<<50, 50, 50, 50>>, <<100, 100, 50, 50>>}}

\* offsets of the local keypoint from the capture pose
LocalOffsets == {<<0, 0>>, <<50, 0>>, <<0, 100>>}

\* sensor mountings: at the body origin and 0.5 m ahead of it
Mountings == {Pose(0, 0, 0), Pose(50, 0, 0)}

\* the three nrand draws of one variant
NoiseDraws == {<<0, 0, 0>>, <<50, 0, PI \div 2>>}

PosesInit ==
    /\ keyScansNum_ = 1
    /\ gotMap_ = TRUE
    /\ gotOdom_ = TRUE
    /\ mapOrigin_ = Pose(0, 0, 0)
    /\ mapData_ = PosesGrid
    /\ sdfKeypoints_ = PosesKeypoints
    /\ sdfOrientationFeatures_ = PosesFeatures
    /\ odomPose_ = SetPose(0, 0, 0)
    /\ \E scan \in VerificationScans : keyScans_ = <<scan>>
    /\ keyPoses_ = <<SetPose(0, 0, 0)>>
    /\ isFirst = FALSE
    /\ prevOdomPose = SetPose(0, 0, 0)
    /\ clock = 1
    /\ event = [cb |-> "none"]
    /\ ran = <<>>
    /\ localSDFKeypoints = <<>>
    /\ localFeatures = <<>>
    /\ correspondingIndices = <<>>
    /\ ctorPc = "done"
    /\ lookup = "done"
    /\ transform_ready_ = TRUE
    /\ baseLink2Laser_ \in Mountings
    /\ tfBaseLink2Laser = baseLink2Laser_
    /\ delivered = [map |-> 0, odom |-> 0, scan |-> 0]
    /\ shutdownRequested = FALSE
    /\ pc = "poses"
    /\ \E off \in LocalOffsets, dom \in {0, PI \div 2}, idx \in -1..1,
          rnd \in BOOLEAN, opp \in BOOLEAN, n \in 0..MaxSamples, th \in {0, 1} :
          input = [currentOdomPose |-> prevOdomPose,
                   localSDFKeypoints |-> <<Keypoint(0, 0, off[1], off[2], 1)>>,
                   localSDFOrientationFeatures |->
                       <<SDFOrientationFeature(dom, Quotient(100, 1), ZeroHist)>>,
                   correspondingIndices |-> <<idx>>,
                   par |-> [addRandomSamples_ |-> rnd, addOppositeSamples_ |-> opp,
                            randomSamplesNum_ |-> n, matchingRateTH_ |-> th]]
    /\ output = <<>>

\* line 1103: the call of generatePoses; nrand draws the noise
Poses ==
    /\ pc = "poses"
    /\ \E noise \in [1..input.par.randomSamplesNum_ -> NoiseDraws] :
          output' = GeneratePoses(input.currentOdomPose, input.localSDFKeypoints,
                                  input.localSDFOrientationFeatures,
                                  input.correspondingIndices, input.par, <<noise>>)
    /\ pc' = "posed"
    /\ UNCHANGED <<nodeVars, globalVars, localSDFKeypoints, localFeatures,
                   correspondingIndices, input, liveVars>>

PosesNext == Poses

SpecPoses == PosesInit /\ [][PosesNext]_vars

\* vocabulary of the claims about generatePoses
CountOf(S) == Cardinality(S)

\* the beams of the verification scan that are valid
ValidBeams == {i \in 0..(Len(keyScans_[Len(keyScans_)].ranges) - 1) :
                  BeamCounted(keyScans_[Len(keyScans_)], i)}

\* the cell a body pose projects onto lies in the grid and is not occupied
BodyCellClear(base) ==
    LET uv == XY2UV(base.x, base.y)
    IN  /\ 0 <= uv[1] /\ uv[1] < mapData_.width
        /\ 0 <= uv[2] /\ uv[2] < mapData_.height
        /\ mapData_.data[uv[2] * mapData_.width + uv[1] + 1] # 100

----------------------------------------------------------------------------
\* C14: with random sampling and opposite-heading sampling on and an even
\* sample count n, the n variants generated for an accepted match consist of
\* n/2 variants with yaw = base yaw + noise and n/2 variants with
\* yaw = base yaw + pi + noise.
C14_HalfOpposite ==
    (pc = "posed" /\ input.par.addRandomSamples_ /\ input.par.addOppositeSamples_
        /\ input.par.randomSamplesNum_ % 2 = 0)
    => \A i \in 1..Len(output.candidates) :
          LET c == output.candidates[i]
              n == input.par.randomSamplesNum_
              same == {k \in 1..Len(c.variants) :
                          c.variants[k].yaw = c.base.yaw + c.variants[k].angularNoise}
              turned == {k \in 1..Len(c.variants) :
                            c.variants[k].yaw = c.base.yaw + PI + c.variants[k].angularNoise}
          IN  c.passes => /\ Len(c.variants) = n
                          /\ 2 * CountOf(same) = n
                          /\ 2 * CountOf(turned) = n

\* four variants were generated for an accepted match, with different noise
C14_Witness ==
    /\ pc = "posed"
    /\ input.par.addRandomSamples_
    /\ input.par.addOppositeSamples_
    /\ input.par.randomSamplesNum_ = 4
    /\ output.candidates[1].passes
    /\ Len(output.candidates[1].variants) = 4
    /\ \E j, k \in 1..4 : output.candidates[1].variants[j].angularNoise
                             # output.candidates[1].variants[k].angularNoise

----------------------------------------------------------------------------
\* C15: with verification on (matchingRateTH_ > 0) and no valid beam in the
\* verification scan, every candidate is rejected: generatePoses adds no pose.
C15_NoValidBeamRejects ==
    (pc = "posed" /\ input.par.matchingRateTH_ > 0 /\ ValidBeams = {})
    => output.poses = <<>>

----------------------------------------------------------------------------
\* C20: a candidate that is emitted or fanned out into variants has a body
\* pose that projects onto a cell inside the grid that is not occupied.
C20_BodyCellClear ==
    pc = "posed" =>
        \A i \in 1..Len(output.candidates) :
            LET c == output.candidates[i]
            IN  (c.poses # <<>> \/ c.variants # <<>>) => BodyCellClear(c.base)

----------------------------------------------------------------------------
\* C19: once the global map has been ingested, a scan callback leaves the
\* stored global map state unchanged: size, resolution and cells (mapData_),
\* origin (mapOrigin_), sdfKeypoints_ and sdfOrientationFeatures_.
C19_ScanLeavesGlobalMap ==
    [][(event'.cb = "scan" /\ gotMap_)
          => /\ mapOrigin_' = mapOrigin_
             /\ mapData_' = mapData_
             /\ sdfKeypoints_' = sdfKeypoints_
             /\ sdfOrientationFeatures_' = sdfOrientationFeatures_]_vars

----------------------------------------------------------------------------
\* The node as it is compiled: the constructor's transform lookup, lines
\* 667-717, the watchdog checkMapOdom, lines 719-734, and the callbacks of
\* lines 737-752, which log the frame id of the message and return.
\*
\* lookup is the state of the waitForTransform request: "none" before the
\* call, "available" / "never" when the buffer is about to run the callback
\* with a transform / with a tf2::LookupException, "pending" while the
\* request is queued, "stored" while the callback holds mutex_ after line 679,
\* "finished" once the callback has returned.  ctorPc is "in_call" while the
\* buffer runs the callback inside waitForTransform, "lock" before line 700,
\* "blocked" inside cv_.wait with mutex_ released, "read" after cv_.wait
\* has returned with mutex_ held.

\* messages of one kind delivered in a run
MaxDeliveries == 2

\* transforms the tf tree holds from the base link to the laser
Transforms == {Pose(0, 0, 0), Pose(1, 0, PI \div 2)}

\* mutex_ is held by the callback / by the constructor
HeldByCallback == lookup = "stored"

HeldByCtor == ctorPc = "read"

\* line 670: waitForTransform is called; it throws, runs the callback before
\* it returns, or queues the request
IssueLookup ==
    /\ ctorPc = "issue"
    /\ \/ ctorPc' = "failed" /\ lookup' = "none"     \* lines 692-698: rethrown
       \/ ctorPc' = "in_call" /\ lookup' \in {"available", "never"}
       \/ ctorPc' = "lock" /\ lookup' = "pending"
    /\ UNCHANGED <<nodeVars, globalVars, matchVars, callVars, transform_ready_,
                   tfBaseLink2Laser, baseLink2Laser_, delivered, shutdownRequested>>

\* the transform is published while the request is queued
TransformArrives ==
    /\ lookup = "pending"
    /\ lookup' = "available"
    /\ UNCHANGED <<nodeVars, globalVars, matchVars, callVars, ctorPc, transform_ready_,
                   tfBaseLink2Laser, baseLink2Laser_, delivered, shutdownRequested>>

\* lines 673-679: the callback locks mutex_, stores the transform, sets the
\* flag and notifies
CallbackStores ==
    /\ lookup = "available"
    /\ ~HeldByCtor
    /\ \E tf \in Transforms : tfBaseLink2Laser' = tf
    /\ transform_ready_' = TRUE
    /\ lookup' = "stored"
    /\ UNCHANGED <<nodeVars, globalVars, matchVars, callVars, ctorPc, baseLink2Laser_,
                   delivered, shutdownRequested>>

\* lines 681-684 and 690: the callback logs, unlocks and returns
CallbackReturns ==
    /\ lookup = "stored"
    /\ lookup' = "finished"
    /\ ctorPc' = IF ctorPc = "in_call" THEN "lock" ELSE ctorPc
    /\ UNCHANGED <<nodeVars, globalVars, matchVars, callVars, transform_ready_,
                   tfBaseLink2Laser, baseLink2Laser_, delivered, shutdownRequested>>

\* lines 673-677 and 685-690: future.get() throws tf2::LookupException; the
\* callback logs the error, unlocks and returns
CallbackFails ==
    /\ lookup = "never"
    /\ ~HeldByCtor
    /\ lookup' = "finished"
    /\ ctorPc' = IF ctorPc = "in_call" THEN "lock" ELSE ctorPc
    /\ UNCHANGED <<nodeVars, globalVars, matchVars, callVars, transform_ready_,
                   tfBaseLink2Laser, baseLink2Laser_, delivered, shutdownRequested>>

\* faulty variant: a wait without a predicate that returns on any wake-up
WokenWithoutPredicate == TRUE

\* lines 701-702: the predicate handed to cv_.wait
WaitPredicate == transform_ready_

\* lines 700-702: the constructor locks mutex_ and tests the predicate of
\* cv_.wait; the wait has no timeout
CtorWaits ==
    /\ ctorPc = "lock"
    /\ ~HeldByCallback
    /\ ctorPc' = IF WaitPredicate THEN "read" ELSE "blocked"
    /\ UNCHANGED <<nodeVars, globalVars, matchVars, callVars, lookup, transform_ready_,
                   tfBaseLink2Laser, baseLink2Laser_, delivered, shutdownRequested>>

\* lines 701-702: woken, the constructor relocks mutex_ and leaves the wait
\* when the predicate holds
CtorWakes ==
    /\ ctorPc = "blocked"
    /\ ~HeldByCallback
    /\ WaitPredicate
    /\ ctorPc' = "read"
    /\ UNCHANGED <<nodeVars, globalVars, matchVars, callVars, lookup, transform_ready_,
                   tfBaseLink2Laser, baseLink2Laser_, delivered, shutdownRequested>>

\* lines 704-717
CtorFinishes ==
    /\ ctorPc = "read"
    /\ baseLink2Laser_' = SetPose(tfBaseLink2Laser.x, tfBaseLink2Laser.y,
                                  tfBaseLink2Laser.yaw)
    /\ ctorPc' = "done"
    /\ UNCHANGED <<nodeVars, globalVars, matchVars, callVars, lookup, transform_ready_,
                   tfBaseLink2Laser, delivered, shutdownRequested>>

\* the node is spun after the constructor has returned, until shutdown
Spinning == ctorPc = "done" /\ ~shutdownRequested

\* mapCB, lines 737-740
LiveMapCB ==
    /\ Spinning
    /\ delivered.map < MaxDeliveries
    /\ delivered' = [delivered EXCEPT !.map = @ + 1]
    /\ event' = [cb |-> "map"]
    /\ UNCHANGED <<keyScansNum_, gotMap_, gotOdom_, mapOrigin_, mapData_, odomPose_,
                   keyScans_, keyPoses_, isFirst, prevOdomPose, clock, ran, globalVars,
                   matchVars, callVars, ctorPc, lookup, transform_ready_,
                   tfBaseLink2Laser, baseLink2Laser_, shutdownRequested>>

\* scanCB, lines 743-746
LiveScanCB ==
    /\ Spinning
    /\ delivered.scan < MaxDeliveries
    /\ delivered' = [delivered EXCEPT !.scan = @ + 1]
    /\ event' = [cb |-> "scan"]
    /\ UNCHANGED <<keyScansNum_, gotMap_, gotOdom_, mapOrigin_, mapData_, odomPose_,
                   keyScans_, keyPoses_, isFirst, prevOdomPose, clock, ran, globalVars,
                   matchVars, callVars, ctorPc, lookup, transform_ready_,
                   tfBaseLink2Laser, baseLink2Laser_, shutdownRequested>>

\* odomCB, lines 749-752
LiveOdomCB ==
    /\ Spinning
    /\ delivered.odom < MaxDeliveries
    /\ delivered' = [delivered EXCEPT !.odom = @ + 1]
    /\ event' = [cb |-> "odom"]
    /\ UNCHANGED <<keyScansNum_, gotMap_, gotOdom_, mapOrigin_, mapData_, odomPose_,
                   keyScans_, keyPoses_, isFirst, prevOdomPose, clock, ran, globalVars,
                   matchVars, callVars, ctorPc, lookup, transform_ready_,
                   tfBaseLink2Laser, baseLink2Laser_, shutdownRequested>>

\* checkMapOdom, lines 719-734, run by the wall timer of lines 663-665
CheckMapOdom ==
    /\ Spinning
    /\ shutdownRequested' = (~gotMap_ \/ ~gotOdom_)
    /\ event' = [cb |-> "timer"]
    /\ UNCHANGED <<keyScansNum_, gotMap_, gotOdom_, mapOrigin_, mapData_, odomPose_,
                   keyScans_, keyPoses_, isFirst, prevOdomPose, clock, ran, globalVars,
                   matchVars, callVars, ctorPc, lookup, transform_ready_,
                   tfBaseLink2Laser, baseLink2Laser_, delivered>>

\* the state at line 667
LiveInit ==
    /\ NodeInit
    /\ sdfKeypoints_ = <<>>
    /\ sdfOrientationFeatures_ = <<>>
    /\ MatchIdle
    /\ CallIdle
    /\ ctorPc = "issue"
    /\ lookup = "none"
    /\ transform_ready_ = FALSE
    /\ tfBaseLink2Laser = Pose(0, 0, 0)
    /\ baseLink2Laser_ = Pose(0, 0, 0)
    /\ delivered = [map |-> 0, odom |-> 0, scan |-> 0]
    /\ shutdownRequested = FALSE

LiveNext ==
    \/ IssueLookup
    \/ TransformArrives
    \/ CallbackStores
    \/ CallbackReturns
    \/ CallbackFails
    \/ CtorWaits
    \/ CtorWakes
    \/ CtorFinishes
    \/ LiveMapCB
    \/ LiveScanCB
    \/ LiveOdomCB
    \/ CheckMapOdom

SpecLive == LiveInit /\ [][LiveNext]_vars

----------------------------------------------------------------------------
\* C17: node initialization never remains blocked on the condition variable
\* forever: the constructor is never inside cv_.wait with transform_ready_
\* false after the lookup callback has returned, a state no step leaves.
C17_NeverBlockedForever ==
    ~(ctorPc = "blocked" /\ lookup = "finished" /\ ~transform_ready_)

----------------------------------------------------------------------------
\* C18: a watchdog check requests termination exactly when no map message or
\* no odometry message has been delivered to the node by then; once both have
\* been delivered no watchdog check terminates the process.
C18_WatchdogFollowsDeliveries ==
    [][event'.cb = "timer" /\ ~shutdownRequested
          => (shutdownRequested' <=> (delivered.map = 0 \/ delivered.odom = 0))]_vars

----------------------------------------------------------------------------
\* C21: when a scan callback runs the matching cycle, the scan that
\* computeMatchingRate casts is the newest entry of the window, keyScans_[0],
\* and the pose handed to generatePoses (prevOdomPose) is the pose of that
\* same newest keyframe, keyPoses_[0].
C21_CastsNewestKeyframe ==
    [][("generatePoses" \in Range(ran'))
          => /\ CastScan(keyScans_') = At(keyScans_', 0)
             /\ prevOdomPose' = At(keyPoses_', 0)]_vars

----------------------------------------------------------------------------
\* buildLocalMap, lines 833-887.
\*
\* Lengths are integer multiples of 0.01 m as in the previous section: the
\* resolution is 50, range_max is 150 and the grid has 9 x 9 cells.  Keyframe
\* positions are multiples of 50 and beams are a quarter turn apart, so every
\* point the ray casting visits lies in the middle of a cell and the rounding
\* of cos and sin in double arithmetic does not change the cell it falls in.

\* faulty variant: the grid anchored at the last entry of the window
LocalMapAnchorOldest(poses) == At(poses, Len(poses) - 1)

\* lines 841-842: the pose the grid is placed around, keyPoses_[0]
LocalMapAnchor(poses) == At(poses, 0)

\* lines 837-843: size, resolution and origin of the local grid
LocalMapInfo ==
    LET rangeMax == At(keyScans_, 0).range_max
        anchor == LocalMapAnchor(keyPoses_)
    IN  [width |-> Trunc(rangeMax * 3, mapData_.resolution),
         height |-> Trunc(rangeMax * 3, mapData_.resolution),
         resolution |-> mapData_.resolution,
         origin |-> Pose(anchor.x - (rangeMax * 3) \div 2,
                         anchor.y - (rangeMax * 3) \div 2, 0)]

\* lines 867-868 and 877-878: the cell of a point
LocalCell(info, x, y) ==
    <<Trunc(x - info.origin.x, info.resolution),
      Trunc(y - info.origin.y, info.resolution)>>

\* lines 869 and 879: the test that guards a write
Writable(info, uv) ==
    0 < uv[1] /\ uv[1] < info.width /\ 0 < uv[2] /\ uv[2] < info.height

\* lines 869-872 and 879-882: map.data[n] = value when the cell passes the test
Mark(info, data, x, y, value) ==
    LET uv == LocalCell(info, x, y)
    IN  IF Writable(info, uv)
        THEN [data EXCEPT ![uv[2] * info.width + uv[1] + 1] = value]
        ELSE data

\* lines 866-875: the loop over r marks the cells along the beam free
RECURSIVE Traverse(_, _, _, _, _, _, _, _)
Traverse(info, data, x, y, dx, dy, r, range) ==
    IF r < range - info.resolution
    THEN Traverse(info, Mark(info, data, x, y, 0), x + dx, y + dy, dx, dy,
                  r + info.resolution, range)
    ELSE data

\* lines 855-883: beam j of a keyframe
CastBeam(info, data, scan, j, sensorX, sensorY, sensorYaw) ==
    LET range == At(scan.ranges, j)
        t == j * scan.angle_increment + scan.angle_min + sensorYaw
        dx == info.resolution * Cos(t)
        dy == info.resolution * Sin(t)
    IN  IF range < scan.range_min \/ scan.range_max < range THEN data
        ELSE IF range < KeypointsMinDistFromMap THEN data
        ELSE Mark(info, Traverse(info, data, sensorX, sensorY, dx, dy, 0, range),
                  range * Cos(t) + sensorX, range * Sin(t) + sensorY, 100)

\* lines 854-884: the beams of a keyframe in index order
RECURSIVE CastBeams(_, _, _, _, _, _, _)
CastBeams(info, data, scan, j, sensorX, sensorY, sensorYaw) ==
    IF j < Len(scan.ranges)
    THEN CastBeams(info, CastBeam(info, data, scan, j, sensorX, sensorY, sensorYaw),
                   scan, j + 1, sensorX, sensorY, sensorYaw)
    ELSE data

\* lines 846-885: the keyframes of the window in index order
RECURSIVE CastKeyframes(_, _, _)
CastKeyframes(info, data, i) ==
    IF i < Len(keyScans_)
    THEN LET yaw == baseLink2Laser_.yaw
             pose == At(keyPoses_, i)
             sensorX == baseLink2Laser_.x * Cos(yaw) - baseLink2Laser_.y * Sin(yaw) + pose.x
             sensorY == baseLink2Laser_.x * Sin(yaw) + baseLink2Laser_.y * Cos(yaw) + pose.y
             sensorYaw == yaw + pose.yaw
         IN  CastKeyframes(info,
                           CastBeams(info, data, At(keyScans_, i), 0,
                                     sensorX, sensorY, sensorYaw),
                           i + 1)
    ELSE data

\* buildLocalMap
BuildLocalMap ==
    LET info == LocalMapInfo
    IN  [width |-> info.width, height |-> info.height,
         resolution |-> info.resolution, origin |-> info.origin,
         data |-> CastKeyframes(info, [n \in 1..(info.width * info.height) |-> -1], 0)]

\* scans of four beams a quarter turn apart: beams at 1 m; a beam at 1.5 m,
\* one nearer than keypoints_min_dist_from_map, one beyond range_max and one
\* at 1 m; every beam nearer than keypoints_min_dist_from_map
LocalScans ==
    {[stamp |-> 1, range_min |-> 10, range_max |-> 150, angle_min |-> 0,
      angle_increment |-> PI \div 2, ranges |-> r] :
        r \in {<<100, 100, 100, 100>>, <<150, 50, 200, 100>>, <<50, 50, 50, 50>>}}

\* poses of the keyframes
KeyframePoses ==
    {SetPose(p[1], p[2], yaw) :
        p \in {<<0, 0>>, <<100, 0>>, <<-50, 0>>, <<0, 100>>}, yaw \in {0, PI \div 2}}

\* lines 1076-1084 in this section's units: a keyframe is inserted when the
\* odometry has moved more than 0.5 m or turned more than 5 degrees
Apart(cur, prev) ==
    LET dx == cur.x - prev.x
        dy == cur.y - prev.y
    IN  dx * dx + dy * dy > 50 * 50 \/ ModifyYaw(cur.yaw - prev.yaw) # 0

LocalMapInit ==
    /\ keyScansNum_ \in 1..MaxKeyScansNum
    /\ gotMap_ = TRUE
    /\ gotOdom_ = TRUE
    /\ mapOrigin_ = Pose(0, 0, 0)
    /\ mapData_ = PosesGrid
    /\ sdfKeypoints_ = PosesKeypoints
    /\ sdfOrientationFeatures_ = PosesFeatures
    /\ keyScans_ \in [1..keyScansNum_ -> LocalScans]
    /\ keyPoses_ \in [1..keyScansNum_ -> KeyframePoses]
    /\ \A i \in 1..(keyScansNum_ - 1) : Apart(keyPoses_[i], keyPoses_[i + 1])
    /\ odomPose_ = keyPoses_[1]
    /\ prevOdomPose = keyPoses_[1]
    /\ isFirst = FALSE
    /\ clock = 1
    /\ event = [cb |-> "none"]
    /\ ran = <<>>
    /\ localSDFKeypoints = <<>>
    /\ localFeatures = <<>>
    /\ correspondingIndices = <<>>
    /\ ctorPc = "done"
    /\ lookup = "done"
    /\ transform_ready_ = TRUE
    /\ baseLink2Laser_ \in Mountings
    /\ tfBaseLink2Laser = baseLink2Laser_
    /\ delivered = [map |-> 0, odom |-> 0, scan |-> 0]
    /\ shutdownRequested = FALSE
    /\ pc = "build"
    /\ input = <<>>
    /\ output = <<>>

\* line 1096: the call of buildLocalMap
BuildMap ==
    /\ pc = "build"
    /\ output' = BuildLocalMap
    /\ pc' = "built"
    /\ UNCHANGED <<nodeVars, globalVars, localSDFKeypoints, localFeatures,
                   correspondingIndices, input, liveVars>>

LocalMapNext == BuildMap

SpecLocalMap == LocalMapInit /\ [][LocalMapNext]_vars

\* twice the coordinates of the middle of a grid
Middle2(map) ==
    <<2 * map.origin.x + map.width * map.resolution,
      2 * map.origin.y + map.height * map.resolution>>

\* the middle of the grid is less than half a cell from the position of a pose
CentredOn(map, pose) ==
    /\ Abs(Middle2(map)[1] - 2 * pose.x) < map.resolution
    /\ Abs(Middle2(map)[2] - 2 * pose.y) < map.resolution

\* C22 as stated: the local grid is centred on the pose of the oldest keyframe
\* of the window, the last entry of keyPoses_.
C22_CentredOnOldest ==
    pc = "built" => CentredOn(output, keyPoses_[Len(keyPoses_)])

\* C22: the local grid is centred on the pose of the newest keyframe of the
\* window, the front entry keyPoses_[0], and is not rotated.
C22_CentredOnNewest ==
    pc = "built" => (CentredOn(output, keyPoses_[1]) /\ output.origin.yaw = 0)

\* a window of two keyframes taken at different positions has been mapped
C22_Witness ==
    /\ pc = "built"
    /\ Len(keyPoses_) = 2
    /\ <<keyPoses_[1].x, keyPoses_[1].y>> # <<keyPoses_[2].x, keyPoses_[2].y>>

\* vocabulary of the claims about the ray casting: the sensor pose of
\* keyframe i, the beams that are cast, and the cells they end in and cross
SensorOf(i) ==
    LET yaw == baseLink2Laser_.yaw
        pose == At(keyPoses_, i)
    IN  [x |-> baseLink2Laser_.x * Cos(yaw) - baseLink2Laser_.y * Sin(yaw) + pose.x,
         y |-> baseLink2Laser_.x * Sin(yaw) + baseLink2Laser_.y * Cos(yaw) + pose.y,
         yaw |-> yaw + pose.yaw]

CastBeamsOf(i) ==
    {j \in 0..(Len(At(keyScans_, i).ranges) - 1) : BeamCounted(At(keyScans_, i), j)}

BeamAngle(i, j) ==
    j * At(keyScans_, i).angle_increment + At(keyScans_, i).angle_min + SensorOf(i).yaw

TerminalCell(map, i, j) ==
    LET range == At(At(keyScans_, i).ranges, j)
    IN  LocalCell(map, range * Cos(BeamAngle(i, j)) + SensorOf(i).x,
                  range * Sin(BeamAngle(i, j)) + SensorOf(i).y)

CrossedCells(map, i, j) ==
    LET range == At(At(keyScans_, i).ranges, j)
    IN  {LocalCell(map, SensorOf(i).x + k * map.resolution * Cos(BeamAngle(i, j)),
                   SensorOf(i).y + k * map.resolution * Sin(BeamAngle(i, j))) :
            k \in {k \in 0..(range \div map.resolution) :
                      k * map.resolution < range - map.resolution}}

CastBeamsOfWindow ==
    {b \in (0..(Len(keyScans_) - 1)) \X (0..3) : b[2] \in CastBeamsOf(b[1])}

InGrid(map, uv) ==
    0 <= uv[1] /\ uv[1] < map.width /\ 0 <= uv[2] /\ uv[2] < map.height

ValueAt(map, uv) == map.data[uv[2] * map.width + uv[1] + 1]

\* C28: in the local map every in-grid cell in which a cast beam of some
\* keyframe ends is occupied (100), and every in-grid cell that beams cross
\* and in which no beam ends is free (0).
C28_TerminalOccupiedCrossedFree ==
    pc = "built" =>
        LET ends == {TerminalCell(output, b[1], b[2]) : b \in CastBeamsOfWindow}
            crossed == UNION {CrossedCells(output, b[1], b[2]) : b \in CastBeamsOfWindow}
        IN  /\ \A uv \in ends : InGrid(output, uv) => ValueAt(output, uv) = 100
            /\ \A uv \in crossed \ ends : InGrid(output, uv) => ValueAt(output, uv) = 0

----------------------------------------------------------------------------
\* Objects of class Pose, lines 31-123, and of class Particle, which wraps a
\* Pose.  A Pose object and a Particle object are constructed and mutated in
\* any order; angles are in units of 5 degrees (PI == 36).

\* Particle(x, y, yaw, w) and Particle(Pose p, w): pose_ is built by the Pose
\* constructor or copied
Particle(p, w) == [pose_ |-> p, w_ |-> w]

\* coordinates and weights given to the objects
Coordinates == {0, 1}

\* yaw angles given to the objects: inside, on the ends of and outside [-pi, pi]
YawArguments == {-3 * PI, -PI - 1, -PI, 0, PI, PI + 1, 3 * PI}

ObjectsInit ==
    /\ NodeInit
    /\ sdfKeypoints_ = <<>>
    /\ sdfOrientationFeatures_ = <<>>
    /\ localSDFKeypoints = <<>>
    /\ localFeatures = <<>>
    /\ correspondingIndices = <<>>
    /\ LiveIdle
    /\ pc = "objects"
    /\ input = <<>>
    /\ output = [pose |-> Pose(0, 0, 0), particle |-> Particle(Pose(0, 0, 0), 0)]

ObjectsUnchanged ==
    UNCHANGED <<nodeVars, globalVars, localSDFKeypoints, localFeatures,
                correspondingIndices, pc, input, liveVars>>

\* Pose(), line 52
NewPose ==
    /\ pc = "objects"
    /\ output' = [output EXCEPT !.pose = Pose(0, 0, 0)]
    /\ ObjectsUnchanged

\* Pose(x, y, yaw), line 60
NewPoseAt ==
    /\ pc = "objects"
    /\ \E x \in Coordinates, y \in Coordinates, yaw \in YawArguments :
          output' = [output EXCEPT !.pose = Pose(x, y, yaw)]
    /\ ObjectsUnchanged

\* Pose::setX and Pose::setY, lines 71 and 77
PoseSetXY ==
    /\ pc = "objects"
    /\ \E x \in Coordinates, y \in Coordinates :
          output' = [output EXCEPT !.pose.x = x, !.pose.y = y]
    /\ ObjectsUnchanged

\* Pose::setYaw, line 83
PoseSetYaw ==
    /\ pc = "objects"
    /\ \E yaw \in YawArguments :
          output' = [output EXCEPT !.pose = SetYaw(output.pose, yaw)]
    /\ ObjectsUnchanged

\* Pose::setPose(x, y, yaw), line 91
PoseSetPose ==
    /\ pc = "objects"
    /\ \E x \in Coordinates, y \in Coordinates, yaw \in YawArguments :
          output' = [output EXCEPT !.pose = SetPose(x, y, yaw)]
    /\ ObjectsUnchanged

\* p = particle.getPose(): Particle::getPose returns a copy of pose_
PoseFromParticle ==
    /\ pc = "objects"
    /\ output' = [output EXCEPT !.pose = output.particle.pose_]
    /\ ObjectsUnchanged

\* p.setPose(particle.getPose()): Pose::setPose(Pose), line 97
PoseSetPoseFromParticle ==
    /\ pc = "objects"
    /\ LET p == output.particle.pose_
       IN  output' = [output EXCEPT !.pose = SetPose(p.x, p.y, p.yaw)]
    /\ ObjectsUnchanged

\* Particle()
NewParticle ==
    /\ pc = "objects"
    /\ output' = [output EXCEPT !.particle = Particle(Pose(0, 0, 0), 0)]
    /\ ObjectsUnchanged

\* Particle(x, y, yaw, w)
NewParticleAt ==
    /\ pc = "objects"
    /\ \E x \in Coordinates, y \in Coordinates, yaw \in YawArguments, w \in Coordinates :
          output' = [output EXCEPT !.particle = Particle(Pose(x, y, yaw), w)]
    /\ ObjectsUnchanged

\* Particle(p.getPose(), w): Pose::getPose, line 121, builds the copy with
\* Pose(x_, y_, yaw_)
NewParticleFromPose ==
    /\ pc = "objects"
    /\ \E w \in Coordinates :
          output' = [output EXCEPT !.particle =
                        Particle(Pose(output.pose.x, output.pose.y, output.pose.yaw), w)]
    /\ ObjectsUnchanged

\* Particle::setX, Particle::setY and Particle::setW
ParticleSetXYW ==
    /\ pc = "objects"
    /\ \E x \in Coordinates, y \in Coordinates, w \in Coordinates :
          output' = [output EXCEPT !.particle.pose_.x = x, !.particle.pose_.y = y,
                                   !.particle.w_ = w]
    /\ ObjectsUnchanged

\* Particle::setYaw
ParticleSetYaw ==
    /\ pc = "objects"
    /\ \E yaw \in YawArguments :
          output' = [output EXCEPT !.particle.pose_ = SetYaw(output.particle.pose_, yaw)]
    /\ ObjectsUnchanged

\* Particle::setPose(x, y, yaw)
ParticleSetPose ==
    /\ pc = "objects"
    /\ \E x \in Coordinates, y \in Coordinates, yaw \in YawArguments :
          output' = [output EXCEPT !.particle.pose_ = SetPose(x, y, yaw)]
    /\ ObjectsUnchanged

\* particle.setPose(p): Particle::setPose(Pose)
ParticleSetPoseFromPose ==
    /\ pc = "objects"
    /\ LET p == output.pose
       IN  output' = [output EXCEPT !.particle.pose_ = SetPose(p.x, p.y, p.yaw)]
    /\ ObjectsUnchanged

ObjectsNext ==
    \/ NewPose \/ NewPoseAt \/ PoseSetXY \/ PoseSetYaw \/ PoseSetPose
    \/ PoseFromParticle \/ PoseSetPoseFromParticle
    \/ NewParticle \/ NewParticleAt \/ NewParticleFromPose \/ ParticleSetXYW
    \/ ParticleSetYaw \/ ParticleSetPose \/ ParticleSetPoseFromPose

SpecObjects == ObjectsInit /\ [][ObjectsNext]_vars

\* Pose::getYaw and Particle::getYaw
GetYaw(p) == p.yaw

\* C23: whatever constructions and mutations the Pose and the Particle have
\* gone through, getYaw returns a yaw in [-pi, pi].
C23_YawInRange ==
    pc = "objects" =>
        /\ -PI <= GetYaw(output.pose) /\ GetYaw(output.pose) <= PI
        /\ -PI <= GetYaw(output.particle.pose_) /\ GetYaw(output.particle.pose_) <= PI

----------------------------------------------------------------------------
\* class Histogram, src/include/als_ros2/Histogram.h.  Values, the range and
\* the bin width are integers of one common unit; probabilities are
\* quotients as in calculateFeatures, so 0 / 0 is NaN.

\* largest number of values a histogram is built from
MaxValues == 2

\* Histogram::val2bin, lines 51-57
Val2Bin(h, val) ==
    LET bin == Trunc(val - h.minValue_, h.binWidth_)
    IN  IF bin < 0 \/ h.histogramSize_ <= bin THEN -1 ELSE bin

\* Histogram::buildHistogram, lines 73-92, on an object whose binWidth_,
\* minValue_ and maxValue_ the constructor has set
BuildHistogram(binWidth, minValue, maxValue, values) ==
    LET size == Trunc(maxValue - minValue, binWidth) + 1
        h0 == [binWidth_ |-> binWidth, minValue_ |-> minValue, maxValue_ |-> maxValue,
               histogramSize_ |-> size]
        counted == {i \in 1..Len(values) : Val2Bin(h0, values[i]) >= 0}
        histogram == [bin \in 0..(size - 1) |->
                         Cardinality({i \in counted : Val2Bin(h0, values[i]) = bin})]
        valueNum == Cardinality(counted)
    IN  [binWidth_ |-> binWidth, minValue_ |-> minValue, maxValue_ |-> maxValue,
         histogramSize_ |-> size, valueNum_ |-> valueNum, histogram_ |-> histogram,
         probability_ |-> [bin \in 0..(size - 1) |-> Quotient(histogram[bin], valueNum)]]

\* std::min_element and std::max_element of a non-empty vector
MinElement(values) ==
    CHOOSE m \in Range(values) : \A w \in Range(values) : m <= w

MaxElement(values) ==
    CHOOSE m \in Range(values) : \A w \in Range(values) : w <= m

\* the return value -1.0
MinusOne == Quotient(-1, 1)

\* Histogram::getProbability, lines 131-140
GetProbability(h, value) ==
    LET shifted == IF value >= h.maxValue_ THEN value - h.binWidth_ ELSE value
        bin == Val2Bin(h, shifted)
    IN  IF bin >= 0 THEN h.probability_[bin] ELSE MinusOne

\* values histograms are built from and asked about
HistogramValues == {0, 1, 3, 4}

\* ranges given to the four-argument constructor
HistogramRanges == {<<0, 4>>, <<1, 3>>, <<1, 4>>, <<3, 3>>}

\* values getProbability is asked about: below, inside and above the ranges
Queries == -3..6

\* the arguments of a constructor call: range is <<>> for the two-argument
\* constructor, which needs a non-empty vector (lines 107-108)
HistogramInit ==
    /\ NodeInit
    /\ sdfKeypoints_ = <<>>
    /\ sdfOrientationFeatures_ = <<>>
    /\ localSDFKeypoints = <<>>
    /\ localFeatures = <<>>
    /\ correspondingIndices = <<>>
    /\ LiveIdle
    /\ pc = "construct"
    /\ \E values \in SeqsUpTo(HistogramValues, MaxValues), binWidth \in {1, 2},
          range \in HistogramRanges \cup {<<>>} :
          /\ range = <<>> => values # <<>>
          /\ input = [values |-> values, binWidth |-> binWidth, range |-> range]
    /\ output = <<>>

\* Histogram(values, binWidth), lines 105-110, and
\* Histogram(values, binWidth, minValue, maxValue), lines 119-124
ConstructHistogram ==
    /\ pc = "construct"
    /\ output' = [h |-> IF input.range = <<>>
                        THEN BuildHistogram(input.binWidth, MinElement(input.values),
                                            MaxElement(input.values), input.values)
                        ELSE BuildHistogram(input.binWidth, input.range[1],
                                            input.range[2], input.values)]
    /\ pc' = "constructed"
    /\ UNCHANGED <<nodeVars, globalVars, localSDFKeypoints, localFeatures,
                   correspondingIndices, input, liveVars>>

\* a call of getProbability on the object
AskProbability ==
    /\ pc = "constructed"
    /\ \E value \in Queries :
          output' = [h |-> output.h, value |-> value,
                     probability |-> GetProbability(output.h, value)]
    /\ pc' = "asked"
    /\ UNCHANGED <<nodeVars, globalVars, localSDFKeypoints, localFeatures,
                   correspondingIndices, input, liveVars>>

HistogramNext == ConstructHistogram \/ AskProbability

SpecHistogram == HistogramInit /\ [][HistogramNext]_vars

\* C24: getProbability returns -1.0 for a value outside [minValue_,
\* maxValue_] and, for a value inside, the probability of the bin in which
\* buildHistogram counts that value.
C24_ProbabilityOfCountedBin ==
    pc = "asked" =>
        IF output.value < output.h.minValue_ \/ output.h.maxValue_ < output.value
        THEN output.probability = MinusOne
        ELSE output.probability = output.h.probability_[Val2Bin(output.h, output.value)]

----------------------------------------------------------------------------
\* lines 469-474: the matrix elements (row, column) read for a window cell
\* that line 467 lets through: the cell and its eight neighbours
CellReads(u, v) == {<<v + dv, u + du>> : dv \in -1..1, du \in -1..1}

\* the matrix elements calculateFeatures reads for one keypoint
FeatureReads(distMap, keypoint, r) ==
    LET cells == SelectUsed(distMap, WindowCells(keypoint.u, keypoint.v, r), 1)
    IN  UNION {CellReads(cells[k][1], cells[k][2]) : k \in 1..Len(cells)}

\* C25: every distance-field element calculateFeatures reads, for every
\* keypoint of detectKeypoints and every half-width, has its row in
\* [0, rows - 1] and its column in [0, cols - 1].
C25_ReadsInsideMatrix ==
    pc = "featured" =>
        \A i \in 1..Len(input.keypoints) :
            \A rc \in FeatureReads(input.distMap, input.keypoints[i], HalfWidth(input)) :
                /\ 0 <= rc[1] /\ rc[1] <= input.distMap.rows - 1
                /\ 0 <= rc[2] /\ rc[2] <= input.distMap.cols - 1

----------------------------------------------------------------------------
\* the total of the bins 0 .. k of a histogram
RECURSIVE SumBins(_, _)
SumBins(hist, k) == IF k < 0 THEN 0 ELSE hist[k] + SumBins(hist, k - 1)

\* C26: the bins of the relative-orientation histogram calculateFeatures
\* builds for a keypoint add up to the number of directions sampled in the
\* window, which is the total of the 36-bin orientation histogram.
C26_EveryDirectionRecorded ==
    pc = "described" =>
        /\ SumBins(OrientHist(input.orientations), OrientBins - 1) = Len(input.orientations)
        /\ SumBins(output.relOrientHist, RelHistBins - 1) = Len(input.orientations)

----------------------------------------------------------------------------
\* the squares of the two gradient components at the cell of a keypoint
SquaredGradient(d, keypoint) ==
    <<GradX(d, keypoint.v, keypoint.u) * GradX(d, keypoint.v, keypoint.u),
      GradY(d, keypoint.v, keypoint.u) * GradY(d, keypoint.v, keypoint.u)>>

\* C27 as stated: at the cell of every keypoint detectKeypoints emits the
\* squared gradient magnitude dx^2 + dy^2 is below gradientSquareTH_.
C27_MagnitudeBelowThreshold ==
    pc = "detected" =>
        \A k \in 1..Len(output) :
            SquaredGradient(input.distMap, output[k])[1]
                + SquaredGradient(input.distMap, output[k])[2] < GradientSquareTH

\* C27: at the cell of every keypoint detectKeypoints emits each of dx^2 and
\* dy^2 is below gradientSquareTH_, so dx^2 + dy^2 is below twice the
\* threshold.
C27_ComponentsBelowThreshold ==
    pc = "detected" =>
        \A k \in 1..Len(output) :
            /\ SquaredGradient(input.distMap, output[k])[1] < GradientSquareTH
            /\ SquaredGradient(input.distMap, output[k])[2] < GradientSquareTH
            /\ SquaredGradient(input.distMap, output[k])[1]
                 + SquaredGradient(input.distMap, output[k])[2] < 2 * GradientSquareTH

\* a keypoint has been emitted at a cell whose squared gradient magnitude
\* is not below the threshold, next to a free cell that is far enough from
\* obstacles and rejected because one component is too steep
C27_Witness ==
    /\ pc = "detected"
    /\ \E k \in 1..Len(output) :
          SquaredGradient(input.distMap, output[k])[1]
              + SquaredGradient(input.distMap, output[k])[2] >= GradientSquareTH
    /\ \E c \in InteriorCells(input.map) :
          /\ ~Skipped(input.map, input.distMap, c[1], c[2])
          /\ \/ GradX(input.distMap, c[2], c[1]) * GradX(input.distMap, c[2], c[1])
                  >= GradientSquareTH
             \/ GradY(input.distMap, c[2], c[1]) * GradY(input.distMap, c[2], c[1])
                  >= GradientSquareTH
          /\ TypesAt(output, c[1], c[2]) = {}

----------------------------------------------------------------------------
\* this step changed the keyframe window
WindowChanged == keyScans_' # keyScans_ \/ keyPoses_' # keyPoses_

\* the scan and the pose of this scan event went to the front of the two
\* vectors and the entries behind them are the former entries, moved by one
\* place in both vectors alike
PairInFront ==
    /\ event'.cb = "scan"
    /\ Len(keyScans_') >= 1
    /\ keyScans_'[1] = event'.msg
    /\ keyPoses_'[1] = odomPose_
    /\ \A i \in 2..Len(keyScans_') :
          keyScans_'[i] = keyScans_[i - 1] /\ keyPoses_'[i] = keyPoses_[i - 1]

\* C29: after every callback keyScans_ and keyPoses_ have the same length;
\* the window changes only by a scan event putting its scan and its pose in
\* front of both vectors and shifting the older pairs alike, so entry i of
\* each comes from the same scan event; and when the window is not empty
\* prevOdomPose is the pose of the front keyframe keyPoses_[0].
C29_PairedWindow ==
    [][/\ Len(keyScans_') = Len(keyPoses_')
       /\ WindowChanged => PairInFront
       /\ keyScans_' # <<>> => prevOdomPose' = At(keyPoses_', 0)]_vars

\* a full window of two keyframes taken at different poses whose older
\* entry has been pushed out by the third scan
C29_Witness ==
    /\ event.cb = "scan"
    /\ keyScansNum_ = 2
    /\ Len(keyScans_) = 2 /\ Len(keyPoses_) = 2
    /\ keyScans_[1].stamp = 3 /\ keyScans_[2].stamp = 2
    /\ keyPoses_[1] # keyPoses_[2]
    /\ prevOdomPose = keyPoses_[1]

----------------------------------------------------------------------------
\* the callback has stored the transform, set transform_ready_ and released
\* mutex_
StoredAndReleased == transform_ready_ /\ lookup = "finished"

\* C30: in every interleaving of the lookup callback and the constructor,
\* transform_ready_ is set and tfBaseLink2Laser is written only by the
\* callback while it holds mutex_; the constructor leaves cv_.wait and reads
\* tfBaseLink2Laser into baseLink2Laser_ only after the callback has stored
\* the transform, set the flag and released mutex_; and a constructor that
\* starts waiting after the callback has completed passes the wait at once
\* instead of blocking.
C30_ReadAfterStore ==
    [][/\ (transform_ready_' # transform_ready_ \/ tfBaseLink2Laser' # tfBaseLink2Laser)
             => (transform_ready_' /\ lookup' = "stored" /\ ~HeldByCtor)
       /\ ctorPc' = "read" => (transform_ready_' /\ lookup' = "finished")
       /\ (ctorPc = "read" /\ ctorPc' = "done")
             => /\ StoredAndReleased
                /\ baseLink2Laser_' = SetPose(tfBaseLink2Laser.x, tfBaseLink2Laser.y,
                                              tfBaseLink2Laser.yaw)
       /\ baseLink2Laser_' # baseLink2Laser_ => (ctorPc = "read" /\ StoredAndReleased)
       /\ (ctorPc = "lock" /\ StoredAndReleased /\ ctorPc' # ctorPc)
             => ctorPc' = "read"]_vars

\* the constructor has returned with the sensor offset read from a transform
\* the callback stored
C30_Witness ==
    /\ ctorPc = "done"
    /\ StoredAndReleased
    /\ tfBaseLink2Laser = Pose(1, 0, PI \div 2)
    /\ baseLink2Laser_ = SetPose(1, 0, PI \div 2)

====
